---- MODULE Spec2Model ----
(* MiniShop flash-sale coordination engine.                                  *)
(*                                                                           *)
(* The module models these parts of the repository, each with its own       *)
(* specification over one shared set of variables:                           *)
(*   Spec        seckill-service: the Purchase Protocol executed as atomic   *)
(*               Lua scripts against the Fast Store (one product)            *)
(*   SpecBurst   the same protocol driven by N distinct users, one attempt   *)
(*               each, quantity 1                                            *)
(*   SpecCache   cache-service: the lock-guarded SeckillPurchase wrapper on  *)
(*               the same keys                                               *)
(*   SpecOrder   order-service: idempotent durable order creation            *)
(*   SpecBreaker seckill-service flow control: the circuit breaker           *)
(*   SpecTokenBucket, SpecSlidingWindow                                      *)
(*               flow control: the rate limiters                             *)
(*   SpecQueue   flow control: the request queue; SpecQueueLive adds the     *)
(*               fairness of its goroutines                                  *)
(*   SpecWait    the blocking waits of limiter, queue and lock under         *)
(*               cancellation of the caller's context                        *)
(*   SpecCompensation                                                        *)
(*               order-service: failure records, the compensation tick and   *)
(*               the manual retry; SpecCompensationLive adds the fairness    *)
(*               of deliveries, transactions, tick and clock                 *)
(*   SpecAdmission                                                           *)
(*               seckill-service: ProcessSeckill and ProcessSeckillAsync on  *)
(*               limiter, breaker and queue                                  *)
(*   SpecInventory                                                           *)
(*               inventory-service: concurrent SyncStock transactions and    *)
(*               the health check with its automatic fix                     *)
(*   SpecRetryRace                                                           *)
(*               order-service: compensation ticks and manual retries        *)
(*               running side by side, one statement a step                  *)
(*   SpecFix     inventory-service: FixInventoryDiff calls on one diff row   *)
(*               running side by side                                        *)
(*   SpecQueueStats                                                          *)
(*               flow control: the request queue with its statistics         *)
(*   SpecMultiLevel                                                          *)
(*               flow control: a MultiLevelLimiter over a token bucket and a *)
(*               sliding window                                              *)
(*   SpecSettle  a purchase in the seckill-service, its stock update message *)
(*               handled by the order-service, and the health check of the  *)
(*               inventory-service                                           *)
EXTENDS Integers, Naturals, Sequences, FiniteSets, TLC

(* ------------------------------------------------------------------------ *)
(* Bounds of the model                                                       *)
(* ------------------------------------------------------------------------ *)

\* valid user ids are 1..NumUsers; user id 0 is the invalid id
NumUsers == 3
\* largest quantity a request asks for; 0 is the invalid quantity
MaxQty == 2
\* largest stock an activity is preloaded with
MaxStock == 3
\* number of Fast Store operations in one behaviour
MaxOps == 5
\* the clock runs from 0 to MaxTime
MaxTime == 2
\* cache-service: number of concurrent SeckillPurchase callers
NumClients == 2
\* cache-service: attempts TryLock makes (maxRetries, 50 in SeckillPurchase)
LockRetries == 2
\* order-service: number of deliveries of order-creation events
NumDeliveries == 3
\* order-service: Retry.MaxAttempts, InitialInterval, Multiplier, MaxInterval
\* and Compensation.MaxRetryHours, BatchSize of the configuration (in ticks)
MaxAttempts == 2
InitialInterval == 1
Multiplier == 2
MaxInterval == 2
MaxRetryHours == 2
BatchSize == 2
\* order-service: failure records in one behaviour; the clock runs to MaxCompTime
MaxFailures == 2
MaxCompTime == 3
\* order-service: largest retry count a manual retry is followed to
MaxRetryCount == 3
\* order-service: the messages purchased and the deliveries under compensation
CompMessages == 2
CompDeliveries == 1
\* order-service: concurrent retry executions (cron jobs and manual retries)
\* and the failure records they find
NumExecs == 2
RaceFailures == 1
\* circuit breaker: concurrent callers of Execute
NumCallers == 2
\* circuit breaker: Execute calls in one behaviour
MaxCalls == 6
\* circuit breaker: largest configured MaxRequests
MaxHalfOpen == 2
\* circuit breaker: Interval and Timeout in clock ticks (60 s by default)
CbInterval == 3
CbTimeout == 1
\* seckill-service: CircuitBreaker.FailureThreshold of the configuration
FailureThreshold == 2
\* seckill-service: the Timeout SubmitAsync is given (30 s), in clock ticks
AsyncTimeout == 2
\* seckill-service: RateLimit.RequestsPerSecond (per tick) and BurstSize
RequestsPerTick == 1
BurstSize == 2
\* seckill-service: ProcessSeckillAsync calls in one behaviour
AsyncRequests == 1
\* inventory-service: concurrent SyncStock calls, and the largest |delta|
NumSyncCalls == 2
MaxDelta == 1
\* inventory-service: largest durable stock before the first call, and
\* largest fast-path stock
MaxInvStock == 1
MaxFastStock == 3
\* inventory-service: largest version of the row before the first call
MaxVersion == 1
\* inventory-service: DefaultStock and LowStockThreshold of the configuration
DefaultStock == 2
LowStockThreshold == 1
\* inventory-service: HealthCheck.Tolerance, HealthCheck.AlertThreshold and
\* Compensation.MaxFixAmount of the configuration
Tolerance == 1
AlertThreshold == 2
MaxFixAmount == 2
\* inventory-service: performHealthCheck cycles in one behaviour
MaxCycles == 2
\* inventory-service: concurrent FixInventoryDiff calls and the largest stock
\* of the diff row they find
NumFixCalls == 2
MaxDiffStock == 3
\* circuit breaker: the clock runs from 0 to MaxCbTime
MaxCbTime == 4
\* limiters: largest token bucket capacity
MaxCapacity == 2
\* limiters: the refill rate is 1 token per 1..MaxRateDen ticks, or 2 per tick
MaxRateDen == 2
\* limiters: largest sliding-window limit and window length (ticks)
MaxLimit == 2
MaxWindow == 2
\* limiters: largest n of AllowN
MaxN == 2
\* limiters: number of AllowN calls in one behaviour, and the last clock value
MaxLimOps == 5
MaxLimTime == 3
\* request queue: capacity of the intake queue, number of workers
QCapacity == 1
QWorkers == 1
\* request queue: number of submissions, largest item timeout, last clock value
NumItems == 2
MaxItemTimeout == 1
MaxQTime == 2

(* ------------------------------------------------------------------------ *)
(* Result codes (seckill-service/internal/seckill)                           *)
(* ------------------------------------------------------------------------ *)

ResultSuccess == 1
ResultStockNotFound == -1
ResultInsufficientStock == -2
ResultUserAlreadyBought == -3
ResultActivityNotFound == -4
ResultActivityNotStarted == -5
ResultActivityEnded == -6
ResultInvalidQuantity == -7
ResultSystemError == -8

\* the one product whose keys are modelled; product id 0 is the invalid id
ProductId == 1

UserIds == 0..NumUsers
ValidUsers == 1..NumUsers
Quantities == 0..MaxQty
ProductIds == {0, ProductId}

(* ------------------------------------------------------------------------ *)
(* Fast Store keys of the product.  A key that does not exist is the empty   *)
(* sequence (GET returns nil), an existing one is a one-element sequence.    *)
(* ------------------------------------------------------------------------ *)

VARIABLES
    stock_key,      \* seckill:stock:<productId>    <<>> or <<n>>
    users_key,      \* seckill:users:<productId>    set of user ids
    activity_key,   \* seckill:activity:<productId> <<>> or <<[start_time, end_time]>>
    purchase_key,   \* seckill:purchase:<productId>:<userId>, per user <<>> or <<info>>
    now,            \* the clock
    initialStock,   \* stock written by the latest preload
    granted,        \* quantity granted by successful attempts since the preload
    restored,       \* quantity re-incremented by rollbacks since the preload
    successes,      \* per user: successful attempts since the user last left the set
    last,           \* the latest Fast Store operation and what it returned
    nops,           \* number of operations so far
    attempt,        \* burst scenario: per user 0 (not yet made) or the code returned
    lock_key,       \* seckill:lock:<productId>     <<>> or <<owner token>>
    holder,         \* the caller whose SETNX set the lock key, 0 without the key
    client,         \* cache-service: per caller the SeckillPurchase call in progress
    held,           \* per user: quantity recorded as bought in the Purchase Set
    orders,             \* order-service: committed rows of table orders
    order_items,        \* committed rows of table order_items
    order_idempotency,  \* committed rows of table order_idempotency
    order_failures,     \* committed rows of table order_failures
    delivery,           \* per delivery of an event: the HandleSeckillOrder call
    succeeded,          \* the messages whose purchase returned success
    mq,                 \* the order-creation messages the queue accepted
    handler,            \* the CompensationHandler the manager was built with
    lastRetry,          \* the latest retry of a failure record and what it did
    lastTick,           \* the latest compensation tick and what it left
    retry,              \* the retry executions in progress: position, kind, records read
    cb,             \* CircuitBreaker: maxRequests, state, generation, counts, expiry
    caller,         \* per caller of Execute: idle, or running with its generation
    cbHist,         \* outcomes counted so far in the current generation
    cbLast,         \* the latest beforeRequest / afterRequest and what it did
    tripHist,       \* the outcomes of the generation that last opened the breaker
    ncalls,         \* number of Execute calls so far
    tb,             \* TokenBucketLimiter: rate, capacity, tokens, lastRefill
    tbReqs,         \* the AllowN calls made on the token bucket, in order
    sw,             \* SlidingWindowLimiter: limit, window, requests
    swReqs,         \* the AllowN calls made on the sliding window, in order
    waiter,         \* a WaitN call on the token bucket: position, n, ctx, result
    q_queue,        \* RequestQueue.queue: the buffered intake channel
    q_processing,   \* RequestQueue.processing: the buffered hand-off channel
    q_closed,       \* RequestQueue.closed (and both channels closed)
    q_ctx,          \* the context given to Start is cancelled
    sched,          \* the scheduler goroutine: position, item in hand
    worker,         \* the worker goroutines: position, item in hand
    item,           \* the submissions: position, QueueItem fields, outcome
    panicked,       \* a goroutine has panicked
    admLast,        \* the last step of ProcessSeckill / ProcessSeckillAsync / processQueueItem
    inventories,    \* inventory-service: the committed Inventory row of the product
    inventories0,   \* the Inventory row before the first call
    inventory_logs, \* the committed InventoryLog rows, in order
    inventory_diffs,  \* the InventoryDiff rows; the id of a row is its index
    inventory_alerts, \* the alert types of the InventoryAlert rows
    rowLock,        \* the SyncStock call whose transaction holds the lock of the row
    syncTx,         \* the SyncStock calls: position, request, row read, result
    autoFix,        \* Inventory.Compensation.AutoFix of the configuration
    syncLast,       \* the last step of a SyncStock call and the row before it
    hcLast,         \* the last performHealthCheck cycle
    fixCall,        \* the FixInventoryDiff calls: position, fix type, diff row read
    fixApplied,     \* number of corrections applied for the diff row
    stock_mq,       \* stock update messages: those sent and how many were handled
    ml,             \* the MultiLevelLimiter: its limiters and the AllowN call in progress
    q_stats         \* QueueStats of the request queue, and the items whose Submit
                    \* stands between its send and its statistics update

storeVars == <<stock_key, users_key, activity_key, purchase_key, now>>
histVars == <<initialStock, granted, restored, successes, last, nops>>
burstVars == <<attempt>>
cacheVars == <<lock_key, holder, client, held>>
orderVars == <<orders, order_items, order_idempotency, order_failures, delivery>>
breakerVars == <<cb, caller, cbHist, cbLast, tripHist, ncalls>>
limiterVars == <<tb, tbReqs, sw, swReqs, waiter>>
compVars == <<succeeded, mq, handler, lastRetry, lastTick>>
queueVars == <<q_queue, q_processing, q_closed, q_ctx, sched, worker, item, panicked>>
admVars == <<admLast>>
retryVars == <<retry>>
fixVars == <<fixCall, fixApplied>>
settleVars == <<stock_mq>>
multiVars == <<ml>>
statsVars == <<q_stats>>
invVars == <<inventories, inventories0, inventory_logs, inventory_diffs, inventory_alerts, rowLock,
             syncTx, autoFix, syncLast, hcLast>>

NoOp == [op |-> "none", pid |-> 0, user |-> 0, qty |-> 0, ok |-> TRUE, code |-> 0,
         remaining |-> 0, before |-> <<>>, usersBefore |-> {}, undoes |-> <<>>,
         at |-> 0]

(* ------------------------------------------------------------------------ *)
(* The atomic scripts                                                        *)
(* ------------------------------------------------------------------------ *)

\* GET of a counter key, a missing key counting as 0 (INCRBY)
Stock0(stockK) == IF stockK = <<>> THEN 0 ELSE stockK[1]

\* reply of a script together with the keys it leaves behind
Reply(code, remaining, stockK, usersK) ==
    [code |-> code, remaining |-> remaining, stock_key |-> stockK, users_key |-> usersK]

\* the purchase detail stored under seckill:purchase:<productId>:<userId>
UserPurchaseInfo(user_id, quantity) ==
    [user_id |-> user_id, quantity |-> quantity, status |-> "pending"]

\* the tail of SeckillLuaScript: SET of the purchase detail of the buyer
SeckillLuaScript_purchase_info(purchaseK, user_id, quantity) ==
    [purchaseK EXCEPT ![user_id] = <<UserPurchaseInfo(user_id, quantity)>>]

\* the tail of SeckillSimpleLuaScript: after SADD the script returns, it makes
\* no call on a seckill:purchase key
SeckillSimpleLuaScript_purchase_info(purchaseK, user_id, quantity) == purchaseK

\* mutant: the stock check is off by one (current_stock < quantity - 1)
SeckillSimpleLuaScript_offByOne(stockK, usersK, user_id, quantity) ==
    IF quantity <= 0 THEN Reply(ResultInvalidQuantity, 0, stockK, usersK)
    ELSE IF user_id \in usersK THEN Reply(ResultUserAlreadyBought, 0, stockK, usersK)
    ELSE IF stockK = <<>> THEN Reply(ResultStockNotFound, 0, stockK, usersK)
    ELSE IF stockK[1] < quantity - 1 THEN Reply(ResultInsufficientStock, 0, stockK, usersK)
    ELSE Reply(ResultSuccess, stockK[1] - quantity,
               <<stockK[1] - quantity>>, usersK \cup {user_id})

\* mutant: the SISMEMBER check is missing
SeckillSimpleLuaScript_noDedup(stockK, usersK, user_id, quantity) ==
    IF quantity <= 0 THEN Reply(ResultInvalidQuantity, 0, stockK, usersK)
    ELSE IF stockK = <<>> THEN Reply(ResultStockNotFound, 0, stockK, usersK)
    ELSE IF stockK[1] < quantity THEN Reply(ResultInsufficientStock, 0, stockK, usersK)
    ELSE Reply(ResultSuccess, stockK[1] - quantity,
               <<stockK[1] - quantity>>, usersK \cup {user_id})

\* mutant: the stock check comes before the SISMEMBER check
SeckillSimpleLuaScript_stockFirst(stockK, usersK, user_id, quantity) ==
    IF quantity <= 0 THEN Reply(ResultInvalidQuantity, 0, stockK, usersK)
    ELSE IF stockK = <<>> THEN Reply(ResultStockNotFound, 0, stockK, usersK)
    ELSE IF stockK[1] < quantity THEN Reply(ResultInsufficientStock, 0, stockK, usersK)
    ELSE IF user_id \in usersK THEN Reply(ResultUserAlreadyBought, 0, stockK, usersK)
    ELSE Reply(ResultSuccess, stockK[1] - quantity,
               <<stockK[1] - quantity>>, usersK \cup {user_id})

\* SeckillSimpleLuaScript: quantity, dedup, stock existence, stock amount,
\* then SET stock and SADD user; an integer reply carries no remaining stock
SeckillSimpleLuaScript(stockK, usersK, user_id, quantity) ==
    IF quantity <= 0 THEN Reply(ResultInvalidQuantity, 0, stockK, usersK)
    ELSE IF user_id \in usersK THEN Reply(ResultUserAlreadyBought, 0, stockK, usersK)
    ELSE IF stockK = <<>> THEN Reply(ResultStockNotFound, 0, stockK, usersK)
    ELSE IF stockK[1] < quantity THEN Reply(ResultInsufficientStock, 0, stockK, usersK)
    ELSE Reply(ResultSuccess, stockK[1] - quantity,
               <<stockK[1] - quantity>>, usersK \cup {user_id})

\* mutant: the rollback forgets the SREM
StockRollbackLuaScript_noSrem(stockK, usersK, user_id, quantity) ==
    IF user_id \notin usersK THEN Reply(0, 0, stockK, usersK)
    ELSE LET cur == IF stockK = <<>> THEN 0 ELSE stockK[1]
         IN Reply(cur + quantity, cur + quantity, <<cur + quantity>>, usersK)

\* StockRollbackLuaScript: no-op (reply 0) for a user outside the set, else
\* INCRBY stock (a missing key counts as 0), SREM user, reply the new stock
StockRollbackLuaScript(stockK, usersK, user_id, quantity) ==
    IF user_id \notin usersK THEN Reply(0, 0, stockK, usersK)
    ELSE LET cur == IF stockK = <<>> THEN 0 ELSE stockK[1]
         IN Reply(cur + quantity, cur + quantity, <<cur + quantity>>,
                  usersK \ {user_id})

(* ------------------------------------------------------------------------ *)
(* SeckillCore (seckill-service)                                             *)
(* ------------------------------------------------------------------------ *)

\* the script InitScripts registers under "seckill", which ExecuteSeckill
\* runs by EVALSHA and falls back to by EVAL: the simple script, which takes
\* neither the activity key nor the current time
InitScripts(stockK, usersK, user_id, quantity) ==
    SeckillSimpleLuaScript(stockK, usersK, user_id, quantity)

\* what ExecuteSeckill returns and leaves in the store; redisOk = FALSE is a
\* store call that returned an error, the script not having run
SeckillOutcome(p, u, q, redisOk) ==
    IF p <= 0 \/ u <= 0 \/ q <= 0
    THEN Reply(ResultInvalidQuantity, 0, stock_key, users_key)
    ELSE IF ~redisOk
    THEN Reply(ResultSystemError, 0, stock_key, users_key)
    ELSE InitScripts(stock_key, users_key, u, q)

ExecuteSeckill(p, u, q, redisOk) ==
    /\ LET r == SeckillOutcome(p, u, q, redisOk)
           ok == r.code = ResultSuccess
       IN /\ stock_key' = r.stock_key
          /\ users_key' = r.users_key
          /\ purchase_key' = IF ok
                             THEN SeckillSimpleLuaScript_purchase_info(purchase_key, u, q)
                             ELSE purchase_key
          /\ granted' = IF ok THEN granted + q ELSE granted
          /\ successes' = IF ok THEN [successes EXCEPT ![u] = @ + 1] ELSE successes
          /\ last' = [op |-> "seckill", pid |-> p, user |-> u, qty |-> q,
                      ok |-> redisOk, code |-> r.code, remaining |-> r.remaining,
                      before |-> stock_key, usersBefore |-> users_key,
                      undoes |-> <<>>, at |-> now]
    /\ nops' = nops + 1
    /\ UNCHANGED <<activity_key, now, initialStock, restored>>

\* RollbackStock: runs the rollback script; a store error changes nothing
RollbackStock(u, q, redisOk) ==
    /\ LET r == IF redisOk THEN StockRollbackLuaScript(stock_key, users_key, u, q)
                ELSE Reply(0, 0, stock_key, users_key)
           undone == redisOk /\ u \in users_key
           bought == last.op = "seckill" /\ last.code = ResultSuccess
       IN /\ stock_key' = r.stock_key
          /\ users_key' = r.users_key
          /\ restored' = IF undone THEN restored + q ELSE restored
          /\ successes' = [v \in UserIds |->
                             IF v \in r.users_key THEN successes[v] ELSE 0]
          /\ last' = [op |-> "rollback", pid |-> ProductId, user |-> u, qty |-> q,
                      ok |-> redisOk, code |-> r.code, remaining |-> r.remaining,
                      before |-> stock_key, usersBefore |-> users_key,
                      undoes |-> IF bought
                                 THEN <<[user |-> last.user, qty |-> last.qty,
                                         before |-> last.before,
                                         usersBefore |-> last.usersBefore]>>
                                 ELSE <<>>,
                      at |-> now]
    /\ nops' = nops + 1
    /\ UNCHANGED <<activity_key, purchase_key, now, initialStock, granted>>

\* PrewarmActivity: SET stock, SET activity; the purchase set is not touched
PrewarmActivity(s, start_time, end_time) ==
    /\ stock_key' = <<s>>
    /\ activity_key' = <<[start_time |-> start_time, end_time |-> end_time]>>
    /\ initialStock' = s
    /\ granted' = 0
    /\ restored' = 0
    /\ last' = [NoOp EXCEPT !.op = "prewarm", !.pid = ProductId,
                            !.before = stock_key, !.usersBefore = users_key,
                            !.at = now]
    /\ nops' = nops + 1
    /\ UNCHANGED <<users_key, purchase_key, now, successes>>

\* CleanupActivity: DEL stock, users, activity
CleanupActivity ==
    /\ stock_key' = <<>>
    /\ users_key' = {}
    /\ activity_key' = <<>>
    /\ successes' = [u \in UserIds |-> 0]
    /\ last' = [NoOp EXCEPT !.op = "cleanup", !.pid = ProductId,
                            !.before = stock_key, !.usersBefore = users_key,
                            !.at = now]
    /\ nops' = nops + 1
    /\ UNCHANGED <<purchase_key, now, initialStock, granted, restored>>

Tick ==
    /\ now < MaxTime
    /\ now' = now + 1
    /\ UNCHANGED <<stock_key, users_key, activity_key, purchase_key>>
    /\ UNCHANGED histVars

vars == <<storeVars, histVars, burstVars, cacheVars, orderVars, breakerVars,
          limiterVars, queueVars, compVars, admVars, invVars, retryVars, fixVars, settleVars, multiVars, statsVars>>

InitStore ==
    /\ stock_key = <<>>
    /\ users_key = {}
    /\ activity_key = <<>>
    /\ purchase_key = [u \in UserIds |-> <<>>]
    /\ now = 0
    /\ initialStock = 0
    /\ granted = 0
    /\ restored = 0
    /\ successes = [u \in UserIds |-> 0]
    /\ last = NoOp
    /\ nops = 0

InitBurstIdle == attempt = [u \in ValidUsers |-> 0]

Clients == 1..NumClients

IdleClient == [pc |-> "idle", user |-> 0, qty |-> 0, value |-> 0, i |-> 0,
               saw |-> <<>>, wrote |-> FALSE, result |-> "", ctx |-> FALSE]

InitCacheIdle ==
    /\ lock_key = <<>>
    /\ holder = 0
    /\ client = [c \in Clients |-> IdleClient]
    /\ held = [u \in UserIds |-> 0]

(* ------------------------------------------------------------------------ *)
(* flowcontrol: CircuitBreaker                                               *)
(* ------------------------------------------------------------------------ *)

StateClosed == "CLOSED"
StateOpen == "OPEN"
StateHalfOpen == "HALF_OPEN"

\* the zero time.Time, which is before every clock reading
ZeroTime == -1

Callers == 1..NumCallers

ClearCounts == [Requests |-> 0, TotalSuccesses |-> 0, TotalFailures |-> 0,
                ConsecutiveSuccesses |-> 0, ConsecutiveFailures |-> 0]

\* Counts.onRequest / onSuccess / onFailure
CountsOnRequest(c) == [c EXCEPT !.Requests = @ + 1]
CountsOnSuccess(c) == [c EXCEPT !.TotalSuccesses = @ + 1,
                                !.ConsecutiveSuccesses = @ + 1,
                                !.ConsecutiveFailures = 0]
CountsOnFailure(c) == [c EXCEPT !.TotalFailures = @ + 1,
                                !.ConsecutiveFailures = @ + 1,
                                !.ConsecutiveSuccesses = 0]

\* mutant: the ratio is compared with > instead of >=
defaultReadyToTrip_strict(counts) ==
    /\ counts.Requests >= 3
    /\ counts.TotalFailures > 0
    /\ counts.TotalFailures * 10 > counts.Requests * 6

\* defaultReadyToTrip: at least 3 requests and failures / requests >= 0.6.
\* A quotient of two small integers is the double 0.6 exactly when it is 3/5,
\* and is off by more than any rounding otherwise, so the float comparison is
\* the integer comparison 10 * failures >= 6 * requests.
defaultReadyToTrip(counts) ==
    /\ counts.Requests >= 3
    /\ counts.TotalFailures > 0
    /\ counts.TotalFailures * 10 >= counts.Requests * 6

\* the ReadyToTrip NewSeckillService configures: at least 3 requests and
\* FailureThreshold failures in the generation
serviceReadyToTrip(counts) ==
    /\ counts.Requests >= 3
    /\ counts.TotalFailures >= FailureThreshold

\* toNewGeneration: next generation, counts cleared, expiry by state
toNewGeneration(b, t) ==
    [b EXCEPT !.generation = @ + 1,
              !.counts = ClearCounts,
              !.expiry = IF b.state = StateClosed
                         THEN (IF CbInterval = 0 THEN ZeroTime ELSE t + CbInterval)
                         ELSE IF b.state = StateOpen THEN t + CbTimeout
                         ELSE ZeroTime]

\* setState: nothing when the state is the same, else a new generation
setState(b, st, t) ==
    IF b.state = st THEN b ELSE toNewGeneration([b EXCEPT !.state = st], t)

\* mutant: OPEN becomes HALF_OPEN without waiting for the timeout
currentState_noWait(b, t) ==
    IF b.state = StateClosed
    THEN (IF b.expiry # ZeroTime /\ b.expiry < t THEN toNewGeneration(b, t) ELSE b)
    ELSE IF b.state = StateOpen
    THEN setState(b, StateHalfOpen, t)
    ELSE b

\* currentState: CLOSED renews its generation when the interval has expired,
\* OPEN becomes HALF_OPEN when the timeout has expired
currentState(b, t) ==
    IF b.state = StateClosed
    THEN (IF b.expiry # ZeroTime /\ b.expiry < t THEN toNewGeneration(b, t) ELSE b)
    ELSE IF b.state = StateOpen
    THEN (IF b.expiry < t THEN setState(b, StateHalfOpen, t) ELSE b)
    ELSE b

\* mutant: a success in HALF_OPEN does not close the breaker
onSuccess_noClose(b, st, t) == [b EXCEPT !.counts = CountsOnSuccess(@)]

\* onSuccess: count it; in HALF_OPEN close the breaker
onSuccess(b, st, t) ==
    LET b1 == [b EXCEPT !.counts = CountsOnSuccess(@)]
    IN IF st = StateHalfOpen THEN setState(b1, StateClosed, t) ELSE b1

\* onFailure: count it; open the breaker when readyToTrip holds of the counts
onFailure(b, st, t) ==
    LET b1 == [b EXCEPT !.counts = CountsOnFailure(@)]
        trip == IF b.readyToTrip = "service" THEN serviceReadyToTrip(b1.counts)
                ELSE defaultReadyToTrip(b1.counts)
    IN IF trip THEN setState(b1, StateOpen, t) ELSE b1

\* NewCircuitBreaker: MaxRequests 0 becomes 1; the first generation starts;
\* readyToTrip is the default unless the configuration gives one
NewCircuitBreaker(maxRequests, t) ==
    toNewGeneration([maxRequests |-> IF maxRequests = 0 THEN 1 ELSE maxRequests,
                     state |-> StateClosed, generation |-> 0,
                     counts |-> ClearCounts, expiry |-> ZeroTime,
                     readyToTrip |-> "default"], t)

NoCall == [op |-> "none", caller |-> 0, at |-> 0, stateBefore |-> StateClosed,
           stateAt |-> StateClosed, expired |-> FALSE, countsAt |-> ClearCounts,
           admitted |-> FALSE, err |-> "", counted |-> FALSE, success |-> FALSE,
           hist |-> <<>>]

\* the counted outcomes of the generation a breaker is in
HistOf(b0, b1, h) == IF b1.generation = b0.generation THEN h ELSE <<>>

\* mutant: HALF_OPEN admits every call
beforeRequest_noLimit(c) ==
    /\ caller[c].pc = "idle"
    /\ ncalls < MaxCalls
    /\ LET b == currentState(cb, now)
           open == b.state = StateOpen
           ok == ~open
       IN /\ cb' = IF ok THEN [b EXCEPT !.counts = CountsOnRequest(@)] ELSE b
          /\ caller' = IF ok
                       THEN [caller EXCEPT ![c] = [pc |-> "running",
                                                   generation |-> b.generation]]
                       ELSE caller
          /\ cbHist' = HistOf(cb, b, cbHist)
          /\ cbLast' = [NoCall EXCEPT !.op = "before", !.caller = c, !.at = now,
                                      !.stateBefore = cb.state,
                                      !.stateAt = b.state,
                                      !.expired = cb.expiry < now,
                                      !.countsAt = b.counts,
                                      !.admitted = ok,
                                      !.err = IF open THEN "ErrCircuitBreakerOpen"
                                              ELSE "",
                                      !.hist = HistOf(cb, b, cbHist)]
    /\ ncalls' = ncalls + 1
    /\ UNCHANGED tripHist

\* beforeRequest, under the mutex: reject in OPEN and in a full HALF_OPEN,
\* else count the request and hand out the generation
beforeRequest(c) ==
    /\ caller[c].pc = "idle"
    /\ ncalls < MaxCalls
    /\ LET b == currentState(cb, now)
           open == b.state = StateOpen
           full == b.state = StateHalfOpen /\ b.counts.Requests >= b.maxRequests
           ok == ~open /\ ~full
       IN /\ cb' = IF ok THEN [b EXCEPT !.counts = CountsOnRequest(@)] ELSE b
          /\ caller' = IF ok
                       THEN [caller EXCEPT ![c] = [pc |-> "running",
                                                   generation |-> b.generation]]
                       ELSE caller
          /\ cbHist' = HistOf(cb, b, cbHist)
          /\ cbLast' = [NoCall EXCEPT !.op = "before", !.caller = c, !.at = now,
                                      !.stateBefore = cb.state,
                                      !.stateAt = b.state,
                                      !.expired = cb.expiry < now,
                                      !.countsAt = b.counts,
                                      !.admitted = ok,
                                      !.err = IF open THEN "ErrCircuitBreakerOpen"
                                              ELSE IF full THEN "ErrTooManyRequests"
                                              ELSE "",
                                      !.hist = HistOf(cb, b, cbHist)]
    /\ ncalls' = ncalls + 1
    /\ UNCHANGED tripHist

\* the wrapped function returns (or panics) and afterRequest runs under the
\* mutex: an outcome of an older generation is dropped
afterRequest(c, success) ==
    /\ caller[c].pc = "running"
    /\ LET b == currentState(cb, now)
           counted == b.generation = caller[c].generation
           b2 == IF ~counted THEN b
                 ELSE IF success THEN onSuccess(b, b.state, now)
                 ELSE onFailure(b, b.state, now)
           h == IF counted
                THEN Append(HistOf(cb, b, cbHist), IF success THEN "S" ELSE "F")
                ELSE HistOf(cb, b, cbHist)
       IN /\ cb' = b2
          /\ cbHist' = HistOf(b, b2, h)
          /\ tripHist' = IF b2.state = StateOpen /\ b.state # StateOpen
                         THEN h ELSE tripHist
          /\ cbLast' = [NoCall EXCEPT !.op = "after", !.caller = c, !.at = now,
                                      !.stateBefore = cb.state,
                                      !.stateAt = b.state,
                                      !.expired = cb.expiry < now,
                                      !.countsAt = b.counts,
                                      !.counted = counted,
                                      !.success = success,
                                      !.hist = h]
    /\ caller' = [caller EXCEPT ![c] = [pc |-> "idle", generation |-> 0]]
    /\ UNCHANGED ncalls

TickBreaker ==
    /\ now < MaxCbTime
    /\ now' = now + 1
    /\ UNCHANGED <<stock_key, users_key, activity_key, purchase_key>>
    /\ UNCHANGED <<histVars, breakerVars>>

InitBreakerIdle ==
    /\ cb = NewCircuitBreaker(0, 0)
    /\ caller = [c \in Callers |-> [pc |-> "idle", generation |-> 0]]
    /\ cbHist = <<>>
    /\ cbLast = NoCall
    /\ tripHist = <<>>
    /\ ncalls = 0

(* ------------------------------------------------------------------------ *)
(* flowcontrol: TokenBucketLimiter and SlidingWindowLimiter                  *)
(* Time is counted in ticks; the rate is rateNum / rateDen tokens per tick.  *)
(* ------------------------------------------------------------------------ *)

\* the refill rates: 1 token per d ticks, and 2 tokens per tick
Rates == {<<1, d>> : d \in 1..MaxRateDen} \cup {<<2, 1>>}

\* NewTokenBucketLimiter: the bucket starts full, lastRefill is the clock
NewTokenBucketLimiter(rate, capacity, t) ==
    [rateNum |-> rate[1], rateDen |-> rate[2], capacity |-> capacity,
     tokens |-> capacity, lastRefill |-> t]

\* mutant: lastRefill is moved on every refill, also when no token is added
refill_resets(l, t) ==
    LET elapsed == t - l.lastRefill
        tokensToAdd == (elapsed * l.rateNum) \div l.rateDen
    IN IF elapsed > 0
       THEN [l EXCEPT !.tokens = IF l.tokens + tokensToAdd > l.capacity
                                 THEN l.capacity ELSE l.tokens + tokensToAdd,
                      !.lastRefill = t]
       ELSE l

\* refill: int(elapsed * rate) tokens are added, capped at the capacity, and
\* lastRefill moves only when at least one token was added
refill(l, t) ==
    LET elapsed == t - l.lastRefill
        tokensToAdd == (elapsed * l.rateNum) \div l.rateDen
    IN IF elapsed > 0 /\ tokensToAdd > 0
       THEN [l EXCEPT !.tokens = IF l.tokens + tokensToAdd > l.capacity
                                 THEN l.capacity ELSE l.tokens + tokensToAdd,
                      !.lastRefill = t]
       ELSE l

\* TokenBucketLimiter.AllowN under the mutex: refill, then take n tokens
TokenBucketAllowN(n) ==
    LET l == refill(tb, now)
        ok == l.tokens >= n
    IN /\ Len(tbReqs) < MaxLimOps
       /\ tb' = IF ok THEN [l EXCEPT !.tokens = @ - n] ELSE l
       /\ tbReqs' = Append(tbReqs, [n |-> n, at |-> now, ok |-> ok])
       /\ UNCHANGED <<sw, swReqs, waiter>>

\* NewSlidingWindowLimiter: no request recorded
NewSlidingWindowLimiter(limit, window) ==
    [limit |-> limit, window |-> window, requests |-> <<>>]

\* the request times later than the cutoff (req.After(cutoff))
ValidRequests(requests, cutoff) == SelectSeq(requests, LAMBDA r : r > cutoff)

\* n copies of t appended to a list of request times
RECURSIVE AppendN(_, _, _)
AppendN(requests, t, n) ==
    IF n <= 0 THEN requests ELSE AppendN(Append(requests, t), t, n - 1)

\* mutant: the limit is tested before the n new records, without n
SlidingWindowAllowN_noN(n) ==
    LET valid == ValidRequests(sw.requests, now - sw.window)
        ok == ~(Len(valid) + 1 > sw.limit)
    IN /\ Len(swReqs) < MaxLimOps
       /\ sw' = [sw EXCEPT !.requests = IF ok THEN AppendN(valid, now, n) ELSE valid]
       /\ swReqs' = Append(swReqs, [n |-> n, at |-> now, ok |-> ok])
       /\ UNCHANGED <<tb, tbReqs, waiter>>

\* SlidingWindowLimiter.AllowN under the mutex: drop the expired records,
\* refuse when the rest plus n exceeds the limit, else record n requests
SlidingWindowAllowN(n) ==
    LET valid == ValidRequests(sw.requests, now - sw.window)
        ok == ~(Len(valid) + n > sw.limit)
    IN /\ Len(swReqs) < MaxLimOps
       /\ sw' = [sw EXCEPT !.requests = IF ok THEN AppendN(valid, now, n) ELSE valid]
       /\ swReqs' = Append(swReqs, [n |-> n, at |-> now, ok |-> ok])
       /\ UNCHANGED <<tb, tbReqs, waiter>>

NoWaiter == [pc |-> "idle", n |-> 0, ctx |-> FALSE, ret |-> ""]

\* TokenBucketLimiter.WaitN up to the loop: a request above the capacity is
\* refused at once
CallWaitN(n, cancelled) ==
    /\ waiter.pc = "idle"
    /\ waiter' = IF n > tb.capacity
                 THEN [pc |-> "returned", n |-> n, ctx |-> cancelled, ret |-> "exceeds"]
                 ELSE [pc |-> "allow", n |-> n, ctx |-> cancelled, ret |-> ""]
    /\ UNCHANGED <<tb, tbReqs, sw, swReqs>>

\* WaitN, head of the loop: AllowN(n); nil when the tokens were taken
WaitNAllow ==
    LET l == refill(tb, now)
        ok == l.tokens >= waiter.n
    IN /\ waiter.pc = "allow"
       /\ tb' = IF ok THEN [l EXCEPT !.tokens = @ - waiter.n] ELSE l
       /\ waiter' = IF ok THEN [waiter EXCEPT !.pc = "returned", !.ret = "nil"]
                          ELSE [waiter EXCEPT !.pc = "select"]
       /\ UNCHANGED <<tbReqs, sw, swReqs>>

\* mutant: the select of WaitN does not return on ctx.Done, it goes round
WaitNDone_ignored ==
    /\ waiter.pc = "select"
    /\ waiter.ctx
    /\ waiter' = [waiter EXCEPT !.pc = "allow"]
    /\ UNCHANGED <<tb, tbReqs, sw, swReqs>>

\* WaitN, the select, case ctx.Done: return ctx.Err()
WaitNDone ==
    /\ waiter.pc = "select"
    /\ waiter.ctx
    /\ waiter' = [waiter EXCEPT !.pc = "returned", !.ret = "ctx"]
    /\ UNCHANGED <<tb, tbReqs, sw, swReqs>>

\* WaitN, the select, case time.After(waitTime): go round the loop. waitTime
\* is whole seconds, zero when (n - tokens) / rate is below one, so the timer
\* can be ready together with ctx.Done
WaitNTimer ==
    /\ waiter.pc = "select"
    /\ waiter' = [waiter EXCEPT !.pc = "allow"]
    /\ UNCHANGED <<tb, tbReqs, sw, swReqs>>

\* the caller's context is cancelled while WaitN is in progress
CancelWait ==
    /\ waiter.pc \in {"allow", "select"}
    /\ ~waiter.ctx
    /\ waiter' = [waiter EXCEPT !.ctx = TRUE]
    /\ UNCHANGED <<tb, tbReqs, sw, swReqs>>

TickLimiter ==
    /\ now < MaxLimTime
    /\ now' = now + 1
    /\ UNCHANGED <<stock_key, users_key, activity_key, purchase_key>>
    /\ UNCHANGED <<histVars, limiterVars>>

InitLimiterIdle ==
    /\ tb = NewTokenBucketLimiter(<<1, 1>>, 1, 0)
    /\ tbReqs = <<>>
    /\ sw = NewSlidingWindowLimiter(1, 1)
    /\ swReqs = <<>>
    /\ waiter = NoWaiter

(* ------------------------------------------------------------------------ *)
(* flowcontrol: RequestQueue                                                 *)
(* A select is one step that takes any one of its ready cases; Response and  *)
(* Error of an item are one buffered slot, as each item is sent to once.     *)
(* ------------------------------------------------------------------------ *)

Items == 1..NumItems
Workers == 1..QWorkers

NoItem == [pc |-> "none", mode |-> "sync", Timestamp |-> 0, Timeout |-> 0,
           ctx |-> FALSE, chan |-> <<>>, full |-> FALSE, accepted |-> FALSE,
           ret |-> "", outcome |-> "", ran |-> 0, callbacks |-> 0]

SetItem(i, fields) == item' = [item EXCEPT ![i] = fields]

\* sendResponse / sendError: a send that does not block; the value is
\* dropped when the slot is taken
Send(ch, v) == IF ch = <<>> THEN <<v>> ELSE ch

\* Submit / SubmitAsync up to the select: the closed flag is read under the
\* read lock, then the item is built with Timestamp = time.Now()
SubmitStart(i, mode, timeout, cancelled) ==
    /\ ~panicked
    /\ item[i].pc = "none"
    /\ \A j \in 1..(i - 1) : item[j].pc # "none"
    /\ SetItem(i, IF q_closed
                  THEN [NoItem EXCEPT !.pc = "returned", !.mode = mode,
                                      !.ctx = cancelled, !.ret = "ErrQueueClosed"]
                  ELSE [NoItem EXCEPT !.pc = "select", !.mode = mode,
                                      !.ctx = cancelled,
                                      !.Timestamp = now, !.Timeout = timeout])
    /\ UNCHANGED <<q_queue, q_processing, q_closed, q_ctx, sched, worker, panicked>>

\* mutant: the intake select has no default case, a full queue is never
\* reported and the item is queued beyond the capacity
SubmitSelect_noDefault(i) ==
    /\ ~panicked
    /\ item[i].pc = "select"
    /\ \/ /\ ~q_closed
          /\ q_queue' = Append(q_queue, i)
          /\ SetItem(i, [item[i] EXCEPT !.pc = "waiting", !.accepted = TRUE,
                                        !.full = Len(q_queue) >= QCapacity,
                                        !.ret = IF item[i].mode = "async" THEN "nil" ELSE ""])
          /\ UNCHANGED panicked
       \/ /\ item[i].ctx
          /\ SetItem(i, [item[i] EXCEPT !.pc = "returned", !.ret = "ctx",
                                        !.full = Len(q_queue) >= QCapacity])
          /\ UNCHANGED <<q_queue, panicked>>
    /\ UNCHANGED <<q_processing, q_closed, q_ctx, sched, worker>>

\* the intake select of Submit / SubmitAsync: send to the queue, or the
\* context is done, or (no case ready) the default case: queue full.
\* A send on the channel closed since the flag was read panics.
SubmitSelect(i) ==
    /\ ~panicked
    /\ item[i].pc = "select"
    /\ LET canSend == ~q_closed /\ Len(q_queue) < QCapacity
           isFull == Len(q_queue) >= QCapacity
       IN \/ /\ canSend
             /\ q_queue' = Append(q_queue, i)
             /\ SetItem(i, [item[i] EXCEPT !.pc = "waiting", !.accepted = TRUE,
                                           !.ret = IF item[i].mode = "async"
                                                   THEN "nil" ELSE ""])
             /\ UNCHANGED panicked
          \/ /\ q_closed
             /\ panicked' = TRUE
             /\ UNCHANGED <<q_queue, item>>
          \/ /\ item[i].ctx
             /\ SetItem(i, [item[i] EXCEPT !.pc = "returned", !.ret = "ctx",
                                           !.full = isFull])
             /\ UNCHANGED <<q_queue, panicked>>
          \/ /\ ~canSend /\ ~q_closed /\ ~item[i].ctx
             /\ SetItem(i, [item[i] EXCEPT !.pc = "returned", !.ret = "ErrQueueFull",
                                           !.full = isFull])
             /\ UNCHANGED <<q_queue, panicked>>
    /\ UNCHANGED <<q_processing, q_closed, q_ctx, sched, worker>>

\* the wait select of Submit, and of the goroutine SubmitAsync starts: the
\* response or error of the item, or the context is done. Submit returns the
\* outcome; the goroutine passes it to the callback.
Await(i) ==
    /\ ~panicked
    /\ item[i].pc = "waiting"
    /\ \/ /\ item[i].chan # <<>>
          /\ SetItem(i, [item[i] EXCEPT !.pc = "returned", !.chan = <<>>,
                                        !.outcome = item[i].chan[1],
                                        !.callbacks = IF item[i].mode = "async"
                                                      THEN @ + 1 ELSE @])
       \/ /\ item[i].ctx
          /\ SetItem(i, [item[i] EXCEPT !.pc = "returned", !.outcome = "ctx",
                                        !.callbacks = IF item[i].mode = "async"
                                                      THEN @ + 1 ELSE @])
    /\ UNCHANGED <<q_queue, q_processing, q_closed, q_ctx, sched, worker, panicked>>

\* the caller's context is cancelled while the call is in progress
CancelItem(i) ==
    /\ ~panicked
    /\ item[i].pc \in {"select", "waiting"}
    /\ ~item[i].ctx
    /\ SetItem(i, [item[i] EXCEPT !.ctx = TRUE])
    /\ UNCHANGED <<q_queue, q_processing, q_closed, q_ctx, sched, worker, panicked>>

\* scheduler, outer select: on ctx.Done close the queue and stop, or take
\* the next item of the intake queue
SchedulerReceive ==
    /\ ~panicked
    /\ sched.pc = "receive"
    /\ \/ /\ q_ctx
          /\ q_closed' = TRUE
          /\ sched' = [pc |-> "done", item |-> 0]
          /\ UNCHANGED q_queue
       \/ /\ q_queue # <<>>
          /\ sched' = [pc |-> "send", item |-> Head(q_queue)]
          /\ q_queue' = Tail(q_queue)
          /\ UNCHANGED q_closed
    /\ UNCHANGED <<q_processing, q_ctx, worker, item, panicked>>

\* scheduler, inner select: hand the item to the processing queue, or on
\* ctx.Done send it ErrQueueClosed and stop (without closing the queue)
SchedulerSend ==
    /\ ~panicked
    /\ sched.pc = "send"
    /\ \/ /\ Len(q_processing) < QWorkers
          /\ q_processing' = Append(q_processing, sched.item)
          /\ sched' = [pc |-> "receive", item |-> 0]
          /\ UNCHANGED item
       \/ /\ q_ctx
          /\ SetItem(sched.item, [item[sched.item] EXCEPT
                                      !.chan = Send(@, "ErrQueueClosed")])
          /\ sched' = [pc |-> "done", item |-> 0]
          /\ UNCHANGED q_processing
    /\ UNCHANGED <<q_queue, q_closed, q_ctx, worker, panicked>>

\* mutant: the worker runs the processor whatever the wait has been
WorkerReceive_noTimeout(w) ==
    /\ ~panicked
    /\ worker[w].pc = "idle"
    /\ \/ /\ q_ctx
          /\ worker' = [worker EXCEPT ![w] = [pc |-> "done", item |-> 0]]
          /\ UNCHANGED <<q_processing, item, panicked>>
       \/ /\ q_processing # <<>>
          /\ q_processing' = Tail(q_processing)
          /\ LET i == Head(q_processing)
             IN /\ SetItem(i, [item[i] EXCEPT !.ran = @ + 1])
                /\ worker' = [worker EXCEPT ![w] = [pc |-> "run", item |-> i]]
          /\ UNCHANGED panicked
       \/ /\ q_processing = <<>> /\ q_closed
          /\ panicked' = TRUE
          /\ UNCHANGED <<q_processing, worker, item>>
    /\ UNCHANGED <<q_queue, q_closed, q_ctx, sched>>

\* worker select and the head of processItem: stop on ctx.Done, or take an
\* item; an item that has waited longer than its Timeout (> 0) gets
\* ErrTimeout, any other is given to the processor. A receive on the closed
\* and drained channel yields nil, which processItem dereferences.
WorkerReceive(w) ==
    /\ ~panicked
    /\ worker[w].pc = "idle"
    /\ \/ /\ q_ctx
          /\ worker' = [worker EXCEPT ![w] = [pc |-> "done", item |-> 0]]
          /\ UNCHANGED <<q_processing, item, panicked>>
       \/ /\ q_processing # <<>>
          /\ q_processing' = Tail(q_processing)
          /\ LET i == Head(q_processing)
             IN IF item[i].Timeout > 0 /\ now - item[i].Timestamp > item[i].Timeout
                THEN /\ SetItem(i, [item[i] EXCEPT !.chan = Send(@, "ErrTimeout")])
                     /\ UNCHANGED worker
                ELSE /\ SetItem(i, [item[i] EXCEPT !.ran = @ + 1])
                     /\ worker' = [worker EXCEPT ![w] = [pc |-> "run", item |-> i]]
          /\ UNCHANGED panicked
       \/ /\ q_processing = <<>> /\ q_closed
          /\ panicked' = TRUE
          /\ UNCHANGED <<q_processing, worker, item>>
    /\ UNCHANGED <<q_queue, q_closed, q_ctx, sched>>

\* the processor returns and processItem sends the response or the error
WorkerFinish(w, ok) ==
    /\ ~panicked
    /\ worker[w].pc = "run"
    /\ SetItem(worker[w].item,
               [item[worker[w].item] EXCEPT
                   !.chan = Send(@, IF ok THEN "response" ELSE "error")])
    /\ worker' = [worker EXCEPT ![w] = [pc |-> "idle", item |-> 0]]
    /\ UNCHANGED <<q_queue, q_processing, q_closed, q_ctx, sched, panicked>>

\* the context given to Start is cancelled
CancelQueue ==
    /\ ~panicked
    /\ ~q_ctx
    /\ q_ctx' = TRUE
    /\ UNCHANGED <<q_queue, q_processing, q_closed, sched, worker, item, panicked>>

TickQueue ==
    /\ ~panicked
    /\ now < MaxQTime
    /\ now' = now + 1
    /\ UNCHANGED <<stock_key, users_key, activity_key, purchase_key>>
    /\ UNCHANGED <<histVars, queueVars>>

\* NewRequestQueue and Start: empty channels, scheduler and workers running
InitQueueIdle ==
    /\ q_queue = <<>>
    /\ q_processing = <<>>
    /\ q_closed = FALSE
    /\ q_ctx = FALSE
    /\ sched = [pc |-> "receive", item |-> 0]
    /\ worker = [w \in Workers |-> [pc |-> "idle", item |-> 0]]
    /\ item = [i \in Items |-> NoItem]
    /\ panicked = FALSE

(* ------------------------------------------------------------------------ *)
(* seckill-service: admission of a purchase request                          *)
(* ProcessSeckill runs executeSeckill inside CircuitBreaker.ExecuteWithContext; *)
(* ProcessSeckillAsync hands the request to the RequestQueue, whose workers  *)
(* run processQueueItem.                                                     *)
(* ------------------------------------------------------------------------ *)

\* no request has been handled: the call, the admission check that rejected
\* it, the result code and error returned, whether the Purchase Protocol
\* was invoked for it and the state of the breaker then
NoAdmission == [op |-> "none", who |-> 0, rejectedBy |-> "", code |-> "",
                err |-> "", invoked |-> FALSE, breaker |-> ""]

InitAdmIdle == admLast = NoAdmission

\* isSystemBusy: false when degradation is disabled; when it is enabled the
\* memory statistics are read and false is returned
isSystemBusy(enable) == IF ~enable THEN FALSE ELSE FALSE

Rejected(op, who, by, code, err) ==
    [NoAdmission EXCEPT !.op = op, !.who = who, !.rejectedBy = by,
                        !.code = code, !.err = err]

Invoked(op, who, st) ==
    [NoAdmission EXCEPT !.op = op, !.who = who, !.invoked = TRUE, !.breaker = st]

\* ProcessSeckill up to the call of executeSeckill: the busy check, the
\* limiter, then beforeRequest of the breaker. ErrCircuitBreakerOpen becomes
\* a ResultSystemBusy result, any other error of the breaker is returned
\* as it is, with no result.
ProcessSeckill(c, enable) ==
    /\ caller[c].pc = "idle"
    /\ IF isSystemBusy(enable)
       THEN /\ admLast' = Rejected("ProcessSeckill", c, "busy", "ResultSystemBusy", "")
            /\ UNCHANGED <<breakerVars, limiterVars>>
       ELSE /\ TokenBucketAllowN(1)
            /\ IF ~tbReqs'[Len(tbReqs')].ok
               THEN /\ admLast' = Rejected("ProcessSeckill", c, "limiter",
                                            "ResultSystemBusy", "")
                    /\ UNCHANGED breakerVars
               ELSE /\ beforeRequest(c)
                    /\ admLast' =
                          IF cbLast'.admitted
                          THEN Invoked("ProcessSeckill", c, cb'.state)
                          ELSE IF cbLast'.err = "ErrCircuitBreakerOpen"
                          THEN Rejected("ProcessSeckill", c, "open",
                                        "ResultSystemBusy", "")
                          ELSE Rejected("ProcessSeckill", c, "half-open",
                                        "", cbLast'.err)
    /\ UNCHANGED queueVars

\* the outcomes of the function ProcessSeckill hands to the breaker: the Fast
\* Store answered (a success or a business refusal), the Fast Store call
\* returned an error, or the function panicked
Outcomes == {"result", "store_error", "panic"}

\* what executeSeckill returns to the breaker. An error of
\* SeckillCore.ExecuteSeckill is answered with a ResultSystemError result
\* and a nil error, every other path returns the result and a nil error.
executeSeckillReturn(outcome) ==
    [code |-> IF outcome = "store_error" THEN "ResultSystemError" ELSE "result",
     err |-> ""]

\* defaultIsSuccessful: the breaker is built without IsSuccessful
defaultIsSuccessful(err) == err = ""

\* executeSeckill returns inside ExecuteWithContext: afterRequest counts
\* isSuccessful(err), or a failure in the deferred recover of a panic;
\* ProcessSeckill returns the result
ProcessSeckillReturn(c, outcome) ==
    /\ LET r == executeSeckillReturn(outcome)
           success == outcome # "panic" /\ defaultIsSuccessful(r.err)
       IN /\ afterRequest(c, success)
          /\ admLast' = [NoAdmission EXCEPT !.op = "return", !.who = c,
                                            !.code = IF outcome = "panic" THEN ""
                                                     ELSE r.code,
                                            !.err = IF outcome = "panic" THEN "panic"
                                                    ELSE r.err]
    /\ UNCHANGED <<limiterVars, queueVars>>

\* ProcessSeckillAsync up to the intake select of SubmitAsync: the busy
\* check and the limiter; the breaker is not asked
ProcessSeckillAsync(i, enable) ==
    /\ item[i].pc = "none"
    /\ \A j \in 1..(i - 1) : item[j].pc # "none"
    /\ IF isSystemBusy(enable)
       THEN /\ admLast' = Rejected("ProcessSeckillAsync", i, "busy", "",
                                    "system is busy")
            /\ UNCHANGED <<limiterVars, queueVars>>
       ELSE /\ TokenBucketAllowN(1)
            /\ IF ~tbReqs'[Len(tbReqs')].ok
               THEN /\ admLast' = Rejected("ProcessSeckillAsync", i, "limiter", "",
                                            "rate limited")
                    /\ UNCHANGED queueVars
               ELSE /\ SubmitStart(i, "async", AsyncTimeout, FALSE)
                    /\ admLast' = [NoAdmission EXCEPT !.op = "ProcessSeckillAsync",
                                                      !.who = i]
    /\ UNCHANGED breakerVars

\* a worker takes an item and processQueueItem calls executeSeckill
processQueueItem(w) ==
    /\ WorkerReceive(w)
    /\ admLast' = IF worker'[w].pc = "run"
                  THEN Invoked("processQueueItem", worker'[w].item,
                               currentState(cb, now).state)
                  ELSE admLast
    /\ UNCHANGED <<breakerVars, limiterVars>>

(* ------------------------------------------------------------------------ *)
(* inventory-service: SyncStock and the health check of one product          *)
(* A SyncStock call is a transaction: a plain read of the row, the insert of *)
(* a missing row, the update guarded by the version, the insert of the log,  *)
(* the commit. The insert and the update take the lock of the row, which is  *)
(* held to the end of the transaction. The goroutines started after the      *)
(* commit write the inventory:<id> cache key and alert rows only.            *)
(* ------------------------------------------------------------------------ *)

SyncCalls == 1..NumSyncCalls

NoRow == [exists |-> FALSE, stock |-> 0, version |-> 0]

IdleSync == [pc |-> "idle", pid |-> 0, delta |-> 0, stock |-> 0, version |-> 0,
             created |-> FALSE, logged |-> FALSE, result |-> ""]

NoSync == [op |-> "none", call |-> 0, stale |-> FALSE, dbOk |-> TRUE, row |-> NoRow,
           logs |-> 0]

\* syncs and synced: the number of SyncStock calls of the fixes that
\* answered Success, and the sum of their deltas
NoCycle == [n |-> 0, healthy |-> FALSE, db |-> 0, redis |-> 0, diff |-> 0,
            found |-> FALSE, fixType |-> "", fixed |-> FALSE, after |-> 0,
            syncs |-> 0, synced |-> 0]

InitInvIdle ==
    /\ inventories = NoRow
    /\ inventories0 = NoRow
    /\ inventory_logs = <<>>
    /\ inventory_diffs = <<>>
    /\ inventory_alerts = {}
    /\ rowLock = 0
    /\ syncTx = [c \in SyncCalls |-> IdleSync]
    /\ autoFix = FALSE
    /\ syncLast = NoSync
    /\ hcLast = NoCycle

abs(x) == IF x < 0 THEN -x ELSE x

SetSync(c, fields) == syncTx' = [syncTx EXCEPT ![c] = fields]

\* a step of a call: whether the version it read is stale, whether the
\* database carried out its statement, the row and the number of logs before
Step(op, c, stale, dbOk) ==
    [op |-> op, call |-> c, stale |-> stale, dbOk |-> dbOk, row |-> inventories,
     logs |-> Len(inventory_logs)]

\* tx.Rollback: the lock of the row is released, nothing is written
TxRollback(c) == rowLock' = IF rowLock = c THEN 0 ELSE rowLock

\* the check made after the row is known: a deduction below zero is answered
\* with Success false and no error
Insufficient(stock, delta) == delta < 0 /\ stock + delta < 0

\* SyncStock up to the read of the row: ProductID <= 0 is rejected; the row
\* is read without a lock; a missing row is to be created
SyncBegin(c, pid, delta, dbOk) ==
    /\ syncTx[c].pc = "idle"
    /\ syncLast' = Step("begin", c, FALSE, dbOk)
    /\ IF pid <= 0
       THEN SetSync(c, [IdleSync EXCEPT !.pc = "done", !.pid = pid, !.delta = delta,
                                        !.result = "invalid"])
       ELSE IF ~dbOk
       THEN SetSync(c, [IdleSync EXCEPT !.pc = "done", !.pid = pid, !.delta = delta,
                                        !.result = "error"])
       ELSE IF ~inventories.exists
       THEN SetSync(c, [IdleSync EXCEPT !.pc = "create", !.pid = pid, !.delta = delta])
       ELSE IF Insufficient(inventories.stock, delta)
       THEN SetSync(c, [IdleSync EXCEPT !.pc = "done", !.pid = pid, !.delta = delta,
                                        !.stock = inventories.stock,
                                        !.version = inventories.version,
                                        !.result = "insufficient"])
       ELSE SetSync(c, [IdleSync EXCEPT !.pc = "update", !.pid = pid, !.delta = delta,
                                        !.stock = inventories.stock,
                                        !.version = inventories.version])
    /\ UNCHANGED <<inventories, inventories0, inventory_logs, inventory_diffs,
                   inventory_alerts, rowLock, autoFix, hcLast>>

\* the insert of the missing row with DefaultStock and Version 0: it waits
\* for a transaction that holds the row, and fails on the unique index when
\* the row has been committed meanwhile
SyncCreate(c, dbOk) ==
    /\ syncTx[c].pc = "create"
    /\ rowLock = 0
    /\ syncLast' = Step("create", c, FALSE, dbOk)
    /\ IF inventories.exists \/ ~dbOk
       THEN /\ SetSync(c, [syncTx[c] EXCEPT !.pc = "done", !.result = "error"])
            /\ UNCHANGED rowLock
       ELSE IF Insufficient(DefaultStock, syncTx[c].delta)
       THEN /\ SetSync(c, [syncTx[c] EXCEPT !.pc = "done", !.stock = DefaultStock,
                                             !.result = "insufficient"])
            /\ UNCHANGED rowLock
       ELSE /\ SetSync(c, [syncTx[c] EXCEPT !.pc = "update", !.stock = DefaultStock,
                                             !.version = 0, !.created = TRUE])
            /\ rowLock' = c
    /\ UNCHANGED <<inventories, inventories0, inventory_logs, inventory_diffs,
                   inventory_alerts, autoFix, hcLast>>

\* the version of the row as the update statement of the call finds it
CurrentVersion(c) == IF syncTx[c].created THEN 0 ELSE inventories.version

\* mutant: the update is not guarded by the version
SyncUpdate_noVersion(c, dbOk) ==
    /\ syncTx[c].pc = "update"
    /\ rowLock \in {0, c}
    /\ syncLast' = Step("update", c, CurrentVersion(c) # syncTx[c].version, dbOk)
    /\ IF ~dbOk
       THEN /\ SetSync(c, [syncTx[c] EXCEPT !.pc = "done", !.result = "error"])
            /\ TxRollback(c)
       ELSE /\ SetSync(c, [syncTx[c] EXCEPT !.pc = "log"])
            /\ rowLock' = c
    /\ UNCHANGED <<inventories, inventories0, inventory_logs, inventory_diffs,
                   inventory_alerts, autoFix, hcLast>>

\* UPDATE ... WHERE version = <the version read>: it waits for a transaction
\* that holds the row; no row affected is the conflict error
SyncUpdate(c, dbOk) ==
    /\ syncTx[c].pc = "update"
    /\ rowLock \in {0, c}
    /\ syncLast' = Step("update", c, CurrentVersion(c) # syncTx[c].version, dbOk)
    /\ IF ~dbOk
       THEN /\ SetSync(c, [syncTx[c] EXCEPT !.pc = "done", !.result = "error"])
            /\ TxRollback(c)
       ELSE IF CurrentVersion(c) # syncTx[c].version
       THEN /\ SetSync(c, [syncTx[c] EXCEPT !.pc = "done", !.result = "conflict"])
            /\ TxRollback(c)
       ELSE /\ SetSync(c, [syncTx[c] EXCEPT !.pc = "log"])
            /\ rowLock' = c
    /\ UNCHANGED <<inventories, inventories0, inventory_logs, inventory_diffs,
                   inventory_alerts, autoFix, hcLast>>

\* mutant: the log row is not inserted
SyncLog_skipped(c, dbOk) ==
    /\ syncTx[c].pc = "log"
    /\ syncLast' = Step("log", c, FALSE, dbOk)
    /\ IF ~dbOk
       THEN /\ SetSync(c, [syncTx[c] EXCEPT !.pc = "done", !.result = "error"])
            /\ TxRollback(c)
       ELSE /\ SetSync(c, [syncTx[c] EXCEPT !.pc = "commit"])
            /\ UNCHANGED rowLock
    /\ UNCHANGED <<inventories, inventories0, inventory_logs, inventory_diffs,
                   inventory_alerts, autoFix, hcLast>>

\* the insert of the InventoryLog row in the transaction
SyncLog(c, dbOk) ==
    /\ syncTx[c].pc = "log"
    /\ syncLast' = Step("log", c, FALSE, dbOk)
    /\ IF ~dbOk
       THEN /\ SetSync(c, [syncTx[c] EXCEPT !.pc = "done", !.result = "error"])
            /\ TxRollback(c)
       ELSE /\ SetSync(c, [syncTx[c] EXCEPT !.pc = "commit", !.logged = TRUE])
            /\ UNCHANGED rowLock
    /\ UNCHANGED <<inventories, inventories0, inventory_logs, inventory_diffs,
                   inventory_alerts, autoFix, hcLast>>

InventoryLog(c, delta, before) ==
    [call |-> c, delta |-> delta, before_stock |-> before, after_stock |-> before + delta]

\* checkStockAlert: out of stock, or at most MinStock
checkStockAlert(stock) ==
    IF stock <= 0 THEN {"out_of_stock"}
    ELSE IF stock <= LowStockThreshold THEN {"low_stock"}
    ELSE {}

\* tx.Commit: the row and the log become durable and the call reports
\* success; a failed commit leaves nothing
SyncCommit(c, dbOk) ==
    /\ syncTx[c].pc = "commit"
    /\ syncLast' = Step("commit", c, FALSE, dbOk)
    /\ rowLock' = 0
    /\ IF ~dbOk
       THEN /\ SetSync(c, [syncTx[c] EXCEPT !.pc = "done", !.result = "error"])
            /\ UNCHANGED <<inventories, inventory_logs, inventory_alerts>>
       ELSE /\ SetSync(c, [syncTx[c] EXCEPT !.pc = "done", !.result = "success"])
            /\ inventories' = [exists |-> TRUE,
                               stock |-> syncTx[c].stock + syncTx[c].delta,
                               version |-> syncTx[c].version + 1]
            /\ inventory_logs' =
                  IF syncTx[c].logged
                  THEN Append(inventory_logs,
                              InventoryLog(c, syncTx[c].delta, syncTx[c].stock))
                  ELSE inventory_logs
            /\ inventory_alerts' = inventory_alerts
                                      \cup checkStockAlert(syncTx[c].stock + syncTx[c].delta)
    /\ UNCHANGED <<inventories0, inventory_diffs, autoFix, hcLast>>

\* SyncStock run from the read to the commit with no other transaction in
\* between, as FixInventoryDiff calls it: the error, the Success of the
\* response, the row and the log row it leaves
SyncStock(row, delta, dbOk) ==
    LET r == IF row.exists THEN row
             ELSE [exists |-> TRUE, stock |-> DefaultStock, version |-> 0]
    IN IF ~dbOk
       THEN [err |-> TRUE, success |-> FALSE, delta |-> 0, row |-> row, log |-> <<>>]
       ELSE IF Insufficient(r.stock, delta)
       THEN [err |-> FALSE, success |-> FALSE, delta |-> 0, row |-> row, log |-> <<>>]
       ELSE [err |-> FALSE, success |-> TRUE, delta |-> delta,
             row |-> [exists |-> TRUE, stock |-> r.stock + delta,
                      version |-> r.version + 1],
             log |-> <<InventoryLog(0, delta, r.stock)>>]

\* the fast-path stock as CheckInventoryHealth reads it: a missing key is 0
RedisStock(key) == IF key = <<>> THEN 0 ELSE key[1]

\* recordInventoryDiff: diff = redis_stock - db_stock, status pending
InventoryDiff(db, redis) ==
    [db_stock |-> db, redis_stock |-> redis, diff |-> redis - db, status |-> "pending"]

\* getLatestDiffID returns 1 whatever the product
getLatestDiffID == 1

\* mutant: the durable value is taken when the fast-path stock is higher
fixType_flipped(diff) == IF diff > 0 THEN "use_db" ELSE "use_redis"

\* autoFixDifference: use_redis, unless the diff is negative: use_db
fixType(diff) == IF diff < 0 THEN "use_db" ELSE "use_redis"

\* FixInventoryDiff: the pending diff row of the id; use_db sets the
\* fast-path key to its db_stock, use_redis calls SyncStock with its
\* redis_stock - db_stock and looks at the error only; then the row is
\* marked fixed
FixInventoryDiff(diffs, row, key, diffID, type, redisOk, dbOk) ==
    LET found == dbOk /\ diffID \in 1..Len(diffs) /\ diffs[diffID].status = "pending"
        d == diffs[diffID]
        fixedDiffs == [diffs EXCEPT ![diffID].status = "fixed"]
        sync == SyncStock(row, d.redis_stock - d.db_stock, dbOk)
        none == [err |-> FALSE, success |-> FALSE, delta |-> 0, row |-> row, log |-> <<>>]
        failed == [ok |-> FALSE, key |-> key, sync |-> none, diffs |-> diffs]
    IN IF ~found THEN failed
       ELSE IF type = "use_db"
       THEN (IF ~redisOk THEN failed
             ELSE [ok |-> TRUE, key |-> <<d.db_stock>>, sync |-> none,
                   diffs |-> fixedDiffs])
       ELSE (IF sync.err THEN failed
             ELSE [ok |-> TRUE, key |-> key, sync |-> sync, diffs |-> fixedDiffs])

\* performHealthCheck: CheckInventoryHealth compares the fast-path stock
\* with the durable stock of the active product, records a diff beyond the
\* tolerance and alerts beyond the alert threshold; a diff found is fixed
\* when AutoFix is set and |diff| <= MaxFixAmount. The SyncStock of the fix
\* waits for a transaction that holds the row.
performHealthCheck(redisOk, diffOk, dbOk) ==
    /\ hcLast.n < MaxCycles
    /\ LET listed == dbOk /\ inventories.exists /\ redisOk
           db == inventories.stock
           redis == RedisStock(stock_key)
           diff == redis - db
           found == listed /\ abs(diff) > Tolerance
           diffs1 == IF found /\ diffOk
                     THEN Append(inventory_diffs, InventoryDiff(db, redis))
                     ELSE inventory_diffs
           alerts1 == IF found /\ abs(diff) > AlertThreshold
                      THEN inventory_alerts \cup {"diff_alert"}
                      ELSE inventory_alerts
           fixing == found /\ autoFix /\ abs(diff) <= MaxFixAmount
           fx == FixInventoryDiff(diffs1, inventories, stock_key, getLatestDiffID,
                                  fixType(diff), redisOk, dbOk)
       IN /\ (fixing /\ fixType(diff) = "use_redis") => rowLock = 0
          /\ inventory_alerts' = alerts1
          /\ inventory_diffs' = IF fixing THEN fx.diffs ELSE diffs1
          /\ stock_key' = IF fixing THEN fx.key ELSE stock_key
          /\ inventories' = IF fixing THEN fx.sync.row ELSE inventories
          /\ inventory_logs' = IF fixing THEN inventory_logs \o fx.sync.log
                               ELSE inventory_logs
          /\ hcLast' = [n |-> hcLast.n + 1,
                        healthy |-> redisOk /\ diffOk /\ dbOk,
                        db |-> db, redis |-> redis, diff |-> diff, found |-> found,
                        fixType |-> IF fixing THEN fixType(diff) ELSE "",
                        fixed |-> fixing /\ fx.ok,
                        after |-> abs(RedisStock(stock_key') - inventories'.stock),
                        syncs |-> IF fixing /\ fx.sync.success
                                  THEN hcLast.syncs + 1 ELSE hcLast.syncs,
                        synced |-> IF fixing
                                   THEN hcLast.synced + fx.sync.delta
                                   ELSE hcLast.synced]
    /\ syncLast' = Step("fix", 0, FALSE, dbOk)
    /\ UNCHANGED <<users_key, activity_key, purchase_key, now>>
    /\ UNCHANGED <<inventories0, rowLock, syncTx, autoFix>>

Deliveries == 1..NumDeliveries

IdleDelivery == [pc |-> "idle", msg |-> 0, result |-> ""]

NoRetry == [kind |-> "none", id |-> 0, duplicate |-> FALSE, clear |-> FALSE,
            before |-> 0, after |-> 0, status |-> ""]
NoTick == [ran |-> FALSE, at |-> 0, due |-> FALSE, stale |-> {}]

\* main wires the OrderService itself as the handler of the manager
InitCompIdle ==
    /\ succeeded = {}
    /\ mq = {}
    /\ handler = "OrderService"
    /\ lastRetry = NoRetry
    /\ lastTick = NoTick

\* no compensation tick and no manual retry is in progress
IdleRetry == [pc |-> "idle", kind |-> "", batch |-> <<>>]

InitRetryIdle == retry = [e \in 1..NumExecs |-> IdleRetry]

\* no FixInventoryDiff call is in progress
IdleFix == [pc |-> "idle", type |-> "", id |-> 0, diff |-> <<>>, result |-> ""]

InitFixIdle ==
    /\ fixCall = [c \in 1..NumFixCalls |-> IdleFix]
    /\ fixApplied = 0

\* no stock update message was sent
InitSettleIdle == stock_mq = [sent |-> <<>>, handled |-> 0]

\* no MultiLevelLimiter is built
NoMulti == [limiters |-> <<>>, pc |-> 0, n |-> 0, ret |-> "", at |-> 0,
            tb0 |-> <<>>, sw0 |-> <<>>, admitted |-> {}]

InitMultiIdle == ml = NoMulti

\* NewRequestQueue: the statistics are zero
NewQueueStats == [TotalRequests |-> 0, ProcessedRequests |-> 0, FailedRequests |-> 0,
                  TimeoutRequests |-> 0, QueuedRequests |-> 0, sent |-> {}]

InitStatsIdle == q_stats = NewQueueStats

InitOrderIdle ==
    /\ orders = {}
    /\ order_items = {}
    /\ order_idempotency = {}
    /\ order_failures = {}
    /\ delivery = [d \in Deliveries |-> IdleDelivery]

Init ==
    /\ InitStore
    /\ InitBurstIdle
    /\ InitCacheIdle
    /\ InitOrderIdle
    /\ InitStatsIdle
    /\ InitMultiIdle
    /\ InitSettleIdle
    /\ InitFixIdle
    /\ InitRetryIdle
    /\ InitInvIdle
    /\ InitAdmIdle
    /\ InitCompIdle
    /\ InitBreakerIdle
    /\ InitLimiterIdle
    /\ InitQueueIdle

Next ==
    \/ /\ nops < MaxOps
       /\ \E p \in ProductIds, u \in UserIds, q \in Quantities, ok \in BOOLEAN :
             ExecuteSeckill(p, u, q, ok)
       /\ UNCHANGED <<burstVars, cacheVars, orderVars, breakerVars, limiterVars, queueVars, compVars, admVars, invVars, retryVars, fixVars, settleVars, multiVars, statsVars>>
    \/ /\ nops < MaxOps
       /\ \E u \in ValidUsers, q \in 1..MaxQty, ok \in BOOLEAN : RollbackStock(u, q, ok)
       /\ UNCHANGED <<burstVars, cacheVars, orderVars, breakerVars, limiterVars, queueVars, compVars, admVars, invVars, retryVars, fixVars, settleVars, multiVars, statsVars>>
    \/ /\ nops < MaxOps
       /\ \E s \in 0..MaxStock, st \in 0..MaxTime, en \in 0..MaxTime :
             st < en /\ PrewarmActivity(s, st, en)
       /\ UNCHANGED <<burstVars, cacheVars, orderVars, breakerVars, limiterVars, queueVars, compVars, admVars, invVars, retryVars, fixVars, settleVars, multiVars, statsVars>>
    \/ /\ nops < MaxOps
       /\ CleanupActivity
       /\ UNCHANGED <<burstVars, cacheVars, orderVars, breakerVars, limiterVars, queueVars, compVars, admVars, invVars, retryVars, fixVars, settleVars, multiVars, statsVars>>
    \/ /\ Tick
       /\ UNCHANGED <<burstVars, cacheVars, orderVars, breakerVars, limiterVars, queueVars, compVars, admVars, invVars, retryVars, fixVars, settleVars, multiVars, statsVars>>

Spec == Init /\ [][Next]_vars

(* ------------------------------------------------------------------------ *)
(* The burst scenario: the product is preloaded with S, then each of the     *)
(* valid users makes one attempt for quantity 1, in any order, against a     *)
(* store that answers                                                        *)
(* ------------------------------------------------------------------------ *)

\* the activity is open during the whole scenario
InitBurst ==
    /\ \E s \in 0..(NumUsers + 1) :
          /\ stock_key = <<s>>
          /\ initialStock = s
    /\ users_key = {}
    /\ activity_key = <<[start_time |-> 0, end_time |-> MaxTime + 1]>>
    /\ purchase_key = [u \in UserIds |-> <<>>]
    /\ now = 0
    /\ granted = 0
    /\ restored = 0
    /\ successes = [u \in UserIds |-> 0]
    /\ last = NoOp
    /\ nops = 0
    /\ attempt = [u \in ValidUsers |-> 0]
    /\ InitCacheIdle
    /\ InitOrderIdle
    /\ InitStatsIdle
    /\ InitMultiIdle
    /\ InitSettleIdle
    /\ InitFixIdle
    /\ InitRetryIdle
    /\ InitInvIdle
    /\ InitAdmIdle
    /\ InitCompIdle
    /\ InitBreakerIdle
    /\ InitLimiterIdle
    /\ InitQueueIdle

BurstAttempt(u) ==
    /\ attempt[u] = 0
    /\ ExecuteSeckill(ProductId, u, 1, TRUE)
    /\ attempt' = [attempt EXCEPT ![u] = SeckillOutcome(ProductId, u, 1, TRUE).code]

NextBurst ==
    \/ /\ \E u \in ValidUsers : BurstAttempt(u)
       /\ UNCHANGED <<cacheVars, orderVars, breakerVars, limiterVars, queueVars, compVars, admVars, invVars, retryVars, fixVars, settleVars, multiVars, statsVars>>
    \/ /\ Tick
       /\ UNCHANGED <<burstVars, cacheVars, orderVars, breakerVars, limiterVars, queueVars, compVars, admVars, invVars, retryVars, fixVars, settleVars, multiVars, statsVars>>

SpecBurst == InitBurst /\ [][NextBurst]_vars

(* ------------------------------------------------------------------------ *)
(* cache-service: DistributedLock and the lock-guarded SeckillPurchase       *)
(* ------------------------------------------------------------------------ *)

\* DistributedLock.Lock: SETNX key value; TRUE when the key was absent
Lock(value) == lock_key = <<>>

\* unlockScript: DEL the key only if it still holds the caller's value
unlockScript(lockK, value) == IF lockK = <<value>> THEN <<>> ELSE lockK

\* decrStockScript: -1 without the key, -2 when short, else the new stock
decrStockScript(stockK, quantity) ==
    IF stockK = <<>> THEN -1
    ELSE IF stockK[1] < quantity THEN -2
    ELSE stockK[1] - quantity

Set(c, fields) == client' = [client EXCEPT ![c] = fields]

\* SeckillPurchase entry: CreateLock builds the lock, whose value is the
\* creation time (time.Now().UnixNano()); dt is the time that has passed
\* since the previous call was made
CallSeckillPurchase(c, u, q, dt) ==
    /\ client[c].pc = "idle"
    /\ now' = now + dt
    /\ Set(c, [IdleClient EXCEPT !.pc = "trylock", !.user = u, !.qty = q,
                                 !.value = now + dt])
    /\ UNCHANGED <<lock_key, holder, held>>
    /\ UNCHANGED <<stock_key, users_key, activity_key, purchase_key>>
    /\ UNCHANGED histVars

\* one iteration of TryLock: the lock is taken, or the attempt failed (the
\* key is there, or the store call was refused as the context is done); then
\* the select between two attempts returns ctx.Err() on ctx.Done or counts
\* the attempt on the timer, and after maxRetries attempts the call returns
\* "failed to acquire lock" (the deferred Unlock is not yet registered)
TryLock(c) ==
    /\ client[c].pc = "trylock"
    /\ \/ /\ Lock(client[c].value)
          /\ lock_key' = <<client[c].value>>
          /\ holder' = c
          /\ Set(c, [client[c] EXCEPT !.pc = "check"])
       \/ /\ ~Lock(client[c].value) \/ client[c].ctx
          /\ UNCHANGED <<lock_key, holder>>
          /\ IF client[c].i + 1 < LockRetries
             THEN \/ Set(c, [client[c] EXCEPT !.i = @ + 1])
                  \/ /\ client[c].ctx
                     /\ Set(c, [client[c] EXCEPT !.pc = "done", !.result = "ctx"])
             ELSE Set(c, [client[c] EXCEPT !.pc = "done", !.result = "lock"])
    /\ UNCHANGED held
    /\ UNCHANGED <<storeVars, histVars>>

\* IsUserPurchased: SISMEMBER; a buyer is turned away
IsUserPurchased(c) ==
    /\ client[c].pc = "check"
    /\ LET purchased == client[c].user \in users_key
       IN Set(c, IF purchased
                 THEN [client[c] EXCEPT !.pc = "unlock", !.saw = <<TRUE>>,
                                        !.result = "already"]
                 ELSE [client[c] EXCEPT !.pc = "decr", !.saw = <<FALSE>>])
    /\ UNCHANGED <<lock_key, holder, held>>
    /\ UNCHANGED <<storeVars, histVars>>

\* DecrStock: the decrement script, an error when it replies -1 or -2
DecrStock(c) ==
    /\ client[c].pc = "decr"
    /\ LET v == decrStockScript(stock_key, client[c].qty)
       IN IF v < 0
          THEN /\ Set(c, [client[c] EXCEPT !.pc = "unlock", !.result = "decr"])
               /\ UNCHANGED stock_key
          ELSE /\ Set(c, [client[c] EXCEPT !.pc = "add", !.wrote = TRUE])
               /\ stock_key' = <<v>>
    /\ UNCHANGED <<lock_key, holder, held>>
    /\ UNCHANGED <<users_key, activity_key, purchase_key, now>>
    /\ UNCHANGED histVars

\* AddUserPurchase: SADD; when it fails the stock is put back by IncrStock
AddUserPurchase(c, redisOk) ==
    /\ client[c].pc = "add"
    /\ IF redisOk
       THEN /\ users_key' = users_key \cup {client[c].user}
            /\ held' = [held EXCEPT ![client[c].user] = @ + client[c].qty]
            /\ Set(c, [client[c] EXCEPT !.pc = "info"])
            /\ UNCHANGED stock_key
       ELSE /\ stock_key' = <<Stock0(stock_key) + client[c].qty>>
            /\ Set(c, [client[c] EXCEPT !.pc = "unlock", !.result = "add"])
            /\ UNCHANGED <<users_key, held>>
    /\ UNCHANGED <<lock_key, holder>>
    /\ UNCHANGED <<activity_key, purchase_key, now>>
    /\ UNCHANGED histVars

\* SetUserPurchaseInfo: SET of the purchase detail (status pending); a failure
\* is returned as an error, nothing is undone
SetUserPurchaseInfo(c, redisOk) ==
    /\ client[c].pc = "info"
    /\ Set(c, [client[c] EXCEPT !.pc = "unlock",
                                !.result = IF redisOk THEN "ok" ELSE "info"])
    /\ purchase_key' = IF redisOk
                       THEN [purchase_key EXCEPT ![client[c].user] =
                                <<UserPurchaseInfo(client[c].user, client[c].qty)>>]
                       ELSE purchase_key
    /\ UNCHANGED <<lock_key, holder, held>>
    /\ UNCHANGED <<stock_key, users_key, activity_key, now>>
    /\ UNCHANGED histVars

\* the deferred Unlock
Unlock(c) ==
    /\ client[c].pc = "unlock"
    /\ lock_key' = unlockScript(lock_key, client[c].value)
    /\ holder' = IF lock_key' = <<>> THEN 0 ELSE holder
    /\ Set(c, [client[c] EXCEPT !.pc = "done"])
    /\ UNCHANGED held
    /\ UNCHANGED <<storeVars, histVars>>

\* the lock key's TTL (lockTTL, 10 s) runs out
\* the caller's context is cancelled while TryLock is in progress
CancelClient(c) ==
    /\ client[c].pc = "trylock"
    /\ ~client[c].ctx
    /\ Set(c, [client[c] EXCEPT !.ctx = TRUE])
    /\ UNCHANGED <<lock_key, holder, held>>
    /\ UNCHANGED <<storeVars, histVars>>

LockExpire ==
    /\ lock_key # <<>>
    /\ lock_key' = <<>>
    /\ holder' = 0
    /\ UNCHANGED <<client, held>>
    /\ UNCHANGED <<storeVars, histVars>>

\* PreloadSeckillActivity has run: stock and activity are set
InitCache ==
    /\ \E s \in 1..MaxStock :
          /\ stock_key = <<s>>
          /\ initialStock = s
    /\ users_key = {}
    /\ activity_key = <<[start_time |-> 0, end_time |-> NumClients + 1]>>
    /\ purchase_key = [u \in UserIds |-> <<>>]
    /\ now = 0
    /\ granted = 0
    /\ restored = 0
    /\ successes = [u \in UserIds |-> 0]
    /\ last = NoOp
    /\ nops = 0
    /\ InitBurstIdle
    /\ InitCacheIdle
    /\ InitOrderIdle
    /\ InitStatsIdle
    /\ InitMultiIdle
    /\ InitSettleIdle
    /\ InitFixIdle
    /\ InitRetryIdle
    /\ InitInvIdle
    /\ InitAdmIdle
    /\ InitCompIdle
    /\ InitBreakerIdle
    /\ InitLimiterIdle
    /\ InitQueueIdle

NextCache ==
    \/ /\ \E c \in Clients, u \in ValidUsers, q \in 1..MaxQty, dt \in 0..1 :
             CallSeckillPurchase(c, u, q, dt)
       /\ UNCHANGED <<burstVars, orderVars, breakerVars, limiterVars, queueVars, compVars, admVars, invVars, retryVars, fixVars, settleVars, multiVars, statsVars>>
    \/ /\ \E c \in Clients : TryLock(c)
       /\ UNCHANGED <<burstVars, orderVars, breakerVars, limiterVars, queueVars, compVars, admVars, invVars, retryVars, fixVars, settleVars, multiVars, statsVars>>
    \/ /\ \E c \in Clients : IsUserPurchased(c)
       /\ UNCHANGED <<burstVars, orderVars, breakerVars, limiterVars, queueVars, compVars, admVars, invVars, retryVars, fixVars, settleVars, multiVars, statsVars>>
    \/ /\ \E c \in Clients : DecrStock(c)
       /\ UNCHANGED <<burstVars, orderVars, breakerVars, limiterVars, queueVars, compVars, admVars, invVars, retryVars, fixVars, settleVars, multiVars, statsVars>>
    \/ /\ \E c \in Clients, ok \in BOOLEAN : AddUserPurchase(c, ok)
       /\ UNCHANGED <<burstVars, orderVars, breakerVars, limiterVars, queueVars, compVars, admVars, invVars, retryVars, fixVars, settleVars, multiVars, statsVars>>
    \/ /\ \E c \in Clients, ok \in BOOLEAN : SetUserPurchaseInfo(c, ok)
       /\ UNCHANGED <<burstVars, orderVars, breakerVars, limiterVars, queueVars, compVars, admVars, invVars, retryVars, fixVars, settleVars, multiVars, statsVars>>
    \/ /\ \E c \in Clients : Unlock(c)
       /\ UNCHANGED <<burstVars, orderVars, breakerVars, limiterVars, queueVars, compVars, admVars, invVars, retryVars, fixVars, settleVars, multiVars, statsVars>>
    \/ /\ LockExpire
       /\ UNCHANGED <<burstVars, orderVars, breakerVars, limiterVars, queueVars, compVars, admVars, invVars, retryVars, fixVars, settleVars, multiVars, statsVars>>

SpecCache == InitCache /\ [][NextCache]_vars

(* ------------------------------------------------------------------------ *)
(* order-service: HandleSeckillOrder and CreateOrder                         *)
(*                                                                           *)
(* A delivery runs CreateOrder as one database transaction.  A row inserted  *)
(* by a transaction is pending until the commit; an insert that meets a      *)
(* pending row of another transaction with the same unique key waits for     *)
(* that transaction, one that meets a committed row fails.  Rows carry the   *)
(* number of the delivery that inserted them as primary key.                 *)
(* ------------------------------------------------------------------------ *)

\* the order-creation events: two purchases of the same (user, product) pair
\* under different order ids, and one of another user
Messages ==
    << [order_id |-> 1, user_id |-> 1, product_id |-> ProductId],
       [order_id |-> 2, user_id |-> 1, product_id |-> ProductId],
       [order_id |-> 3, user_id |-> 2, product_id |-> ProductId] >>

Msg(d) == Messages[delivery[d].msg]

\* transactions that hold a pending orders row / order_idempotency row
PendingOrder(d) == delivery[d].pc \in {"item", "idem", "commit"}
PendingIdempotency(d) == delivery[d].pc = "commit"

\* uniqueIndex on orders.order_id
OrderIdTaken(rows, m) == \E r \in rows : r.order_id = m.order_id

\* mutant: idx_user_product_unique is not created
UserProductTaken_noIndex(rows, m) == FALSE

\* CreateUniqueIndexes: idx_user_product_unique on order_idempotency
UserProductTaken(rows, m) ==
    \E r \in rows : r.user_id = m.user_id /\ r.product_id = m.product_id

\* checkIdempotency: the row of (user_id, product_id), if one is committed
checkIdempotency(m) ==
    \E r \in order_idempotency : r.user_id = m.user_id /\ r.product_id = m.product_id

Row(d) == [id |-> d, order_id |-> Msg(d).order_id, user_id |-> Msg(d).user_id,
           product_id |-> Msg(d).product_id]

SetDelivery(d, fields) == delivery' = [delivery EXCEPT ![d] = fields]

\* the event is delivered: HandleSeckillOrder builds the request, CreateOrder
\* validates it and begins the transaction
HandleSeckillOrder(d, m) ==
    /\ delivery[d].pc = "idle"
    /\ SetDelivery(d, [pc |-> "check", msg |-> m, result |-> ""])
    /\ UNCHANGED <<orders, order_items, order_idempotency, order_failures>>

\* the idempotency check: a hit rolls back and is ErrDuplicateOrder, which
\* HandleSeckillOrder turns into success
CheckIdempotency(d) ==
    /\ delivery[d].pc = "check"
    /\ IF checkIdempotency(Msg(d))
       THEN SetDelivery(d, [delivery[d] EXCEPT !.pc = "done", !.result = "duplicate"])
       ELSE SetDelivery(d, [delivery[d] EXCEPT !.pc = "order"])
    /\ UNCHANGED <<orders, order_items, order_idempotency, order_failures>>

\* tx.Create(order)
InsertOrder(d) ==
    /\ delivery[d].pc = "order"
    /\ ~\E e \in Deliveries \ {d} : PendingOrder(e) /\ Msg(e).order_id = Msg(d).order_id
    /\ IF OrderIdTaken(orders, Msg(d))
       THEN SetDelivery(d, [delivery[d] EXCEPT !.pc = "record"])
       ELSE SetDelivery(d, [delivery[d] EXCEPT !.pc = "item"])
    /\ UNCHANGED <<orders, order_items, order_idempotency, order_failures>>

\* tx.Create(orderItem)
InsertOrderItem(d) ==
    /\ delivery[d].pc = "item"
    /\ SetDelivery(d, [delivery[d] EXCEPT !.pc = "idem"])
    /\ UNCHANGED <<orders, order_items, order_idempotency, order_failures>>

\* tx.Create(idempotency)
InsertIdempotency(d) ==
    /\ delivery[d].pc = "idem"
    /\ ~UserProductTaken({Row(e) : e \in {x \in Deliveries \ {d} : PendingIdempotency(x)}},
                         Msg(d))
    /\ IF UserProductTaken(order_idempotency, Msg(d))
       THEN SetDelivery(d, [delivery[d] EXCEPT !.pc = "record"])
       ELSE SetDelivery(d, [delivery[d] EXCEPT !.pc = "commit"])
    /\ UNCHANGED <<orders, order_items, order_idempotency, order_failures>>

\* tx.Commit: order, line item and idempotency row become durable together
Commit(d) ==
    /\ delivery[d].pc = "commit"
    /\ orders' = orders \cup {Row(d)}
    /\ order_items' = order_items \cup {Row(d)}
    /\ order_idempotency' = order_idempotency \cup {Row(d)}
    /\ SetDelivery(d, [delivery[d] EXCEPT !.pc = "done", !.result = "created"])
    /\ UNCHANGED order_failures

\* checkIdempotency fails with an error of the database other than "record
\* not found": the transaction is rolled back and the failure is recorded
CheckIdempotencyError(d) ==
    /\ delivery[d].pc = "check"
    /\ SetDelivery(d, [delivery[d] EXCEPT !.pc = "record"])
    /\ UNCHANGED <<orders, order_items, order_idempotency, order_failures>>

\* calculateNextRetryTime: the initial interval multiplied retryCount times,
\* stopping at the largest interval, added to the clock
RECURSIVE Backoff(_, _)
Backoff(interval, k) ==
    IF k = 0 THEN interval
    ELSE IF interval * Multiplier > MaxInterval THEN MaxInterval
    ELSE Backoff(interval * Multiplier, k - 1)

calculateNextRetryTime(retryCount, t) == t + Backoff(InitialInterval, retryCount)

\* the OrderFailure row recordOrderFailure builds from message number m:
\* FailureType is left empty
OrderFailure(id, m, t) ==
    [id |-> id, order_id |-> Messages[m].order_id, user_id |-> Messages[m].user_id,
     product_id |-> Messages[m].product_id, msg |-> m, failure_type |-> "",
     retry_count |-> 0, max_retries |-> MaxAttempts,
     next_retry_at |-> calculateNextRetryTime(0, t), created_at |-> t,
     status |-> "pending"]

\* recordOrderFailure after a rolled-back transaction: a pending failure
\* record with retry count 0; HandleSeckillOrder returns the error
recordOrderFailure(d) ==
    /\ delivery[d].pc = "record"
    /\ order_failures' = order_failures \cup {OrderFailure(d, delivery[d].msg, now)}
    /\ SetDelivery(d, [delivery[d] EXCEPT !.pc = "done", !.result = "failed"])
    /\ UNCHANGED <<orders, order_items, order_idempotency>>

(* ------------------------------------------------------------------------ *)
(* order-service: the failure records and their retries.  A retry runs its   *)
(* CreateOrder transaction in one step.                                      *)
(* ------------------------------------------------------------------------ *)

\* the tables a retry reads and writes, and the latest retry (clear: the
\* database answers and a CreateOrder of the stored message would go through)
Tables == [failures |-> order_failures, orders |-> orders, items |-> order_items,
           idem |-> order_idempotency, last |-> lastRetry]

FailureById(fs, id) == CHOOSE f \in fs : f.id = id

\* CreateOrder run as one step on message number m; dbOk is whether the
\* database answers the statements of the transaction
CreateOrderOutcome(db, m, dbOk) ==
    IF ~dbOk THEN "error"
    ELSE IF UserProductTaken(db.idem, Messages[m]) THEN "duplicate"
    ELSE IF OrderIdTaken(db.orders, Messages[m]) THEN "error"
    ELSE "created"

CreateOrderRows(db, m, id, dbOk) ==
    LET row == [id |-> id, order_id |-> Messages[m].order_id,
                user_id |-> Messages[m].user_id, product_id |-> Messages[m].product_id]
    IN IF CreateOrderOutcome(db, m, dbOk) = "created"
       THEN [db EXCEPT !.orders = @ \cup {row}, !.items = @ \cup {row},
                       !.idem = @ \cup {row}]
       ELSE db

\* no transaction in progress holds a row the retry would wait for
NoPendingConflict(m) ==
    ~\E e \in Deliveries :
        /\ PendingOrder(e)
        /\ \/ Msg(e).order_id = Messages[m].order_id
           \/ Msg(e).user_id = Messages[m].user_id /\ Msg(e).product_id = Messages[m].product_id

\* OrderService.ProcessFailedOrder: the switch on FailureType; the three
\* known types do nothing and return nil, any other type is an error
OrderServiceProcessFailedOrder(f) ==
    f.failure_type \in {"inventory_lock", "payment", "order_creation"}

\* DefaultCompensationHandler.ProcessFailedOrder: CreateOrder from the stored
\* message; every error of CreateOrder, ErrDuplicateOrder too, is returned
DefaultProcessFailedOrder(db, f, dbOk) == CreateOrderOutcome(db, f.msg, dbOk) = "created"

\* handleRetrySuccess: the record is marked success
handleRetrySuccess(f) == [f EXCEPT !.status = "success"]

\* handleRetryFailure: the count of the struct is raised; at max retries only
\* the status is written (failed), else count, next retry time and pending
handleRetryFailure(f, t) ==
    IF f.retry_count + 1 >= f.max_retries
    THEN [f EXCEPT !.status = "failed"]
    ELSE [f EXCEPT !.retry_count = f.retry_count + 1,
                   !.next_retry_at = calculateNextRetryTime(f.retry_count + 1, t),
                   !.status = "pending"]

\* processFailedOrder: processing, then the handler, then success or failure
processFailedOrder(db, id, dbOk, t) ==
    LET f == FailureById(db.failures, id)
        ok == IF handler = "OrderService" THEN OrderServiceProcessFailedOrder(f)
              ELSE DefaultProcessFailedOrder(db, f, dbOk)
        db2 == IF handler = "OrderService" THEN db
               ELSE CreateOrderRows(db, f.msg, NumDeliveries + id, dbOk)
        g == IF ok THEN handleRetrySuccess(f) ELSE handleRetryFailure(f, t)
    IN [db2 EXCEPT !.failures = (@ \ {f}) \cup {g},
                   !.last = [kind |-> "scheduled", id |-> id,
                             duplicate |-> /\ UserProductTaken(db.idem, Messages[f.msg])
                                           /\ (handler = "OrderService" \/ dbOk),
                             clear |-> CreateOrderOutcome(db, f.msg, dbOk) = "created",
                             before |-> f.retry_count, after |-> g.retry_count,
                             status |-> g.status]]

RECURSIVE processBatch(_, _, _, _)
processBatch(db, batch, dbOk, t) ==
    IF batch = <<>> THEN db
    ELSE processBatch(processFailedOrder(db, Head(batch), dbOk, t), Tail(batch), dbOk, t)

\* the records the query of processFailedOrders selects
DueFailures(fs, t) ==
    {f \in fs : /\ f.status = "pending"
                /\ f.next_retry_at <= t
                /\ f.retry_count < f.max_retries
                /\ f.created_at > t - MaxRetryHours}

\* the pending or processing records older than the retention window
StaleFailures(fs, t) ==
    {f \in fs : f.created_at < t - MaxRetryHours /\ f.status \in {"pending", "processing"}}

\* cleanupExpiredFailures: the stale records are marked expired
cleanupExpiredFailures(fs, t) ==
    {IF f \in StaleFailures(fs, t) THEN [f EXCEPT !.status = "expired"] ELSE f : f \in fs}

\* the batches Limit(BatchSize) can return: up to BatchSize of the due
\* records, in any order
Batches(due) ==
    LET ids == {f.id : f \in due}
        n == IF Cardinality(ids) < BatchSize THEN Cardinality(ids) ELSE BatchSize
    IN {b \in [1..n -> ids] : \A i, j \in 1..n : i # j => b[i] # b[j]}

\* one compensation tick, processFailedOrders: nothing due, return; else
\* process the batch one record after the other, then sweep
processFailedOrders(dbOk) ==
    LET due == DueFailures(order_failures, now)
    IN /\ \A f \in due : NoPendingConflict(f.msg)
       /\ IF due = {}
          THEN /\ lastTick' = [ran |-> TRUE, at |-> now, due |-> FALSE,
                               stale |-> {f.id : f \in StaleFailures(order_failures, now)}]
               /\ UNCHANGED <<orders, order_items, order_idempotency, order_failures,
                              lastRetry>>
          ELSE \E batch \in Batches(due) :
                 LET db == processBatch(Tables, batch, dbOk, now)
                     fs == cleanupExpiredFailures(db.failures, now)
                 IN /\ order_failures' = fs
                    /\ orders' = db.orders
                    /\ order_items' = db.items
                    /\ order_idempotency' = db.idem
                    /\ lastRetry' = db.last
                    /\ lastTick' = [ran |-> TRUE, at |-> now, due |-> TRUE,
                                    stale |-> {f.id : f \in StaleFailures(fs, now)}]
       /\ UNCHANGED <<delivery, succeeded, mq, handler>>

\* the manual retry, RetryFailedOrder: a record not yet success is handed to
\* HandleSeckillOrder again, which treats a duplicate as success and records
\* any other error as a new failure; then the record is marked success, or
\* its count is raised by an update that also names the column last_error
\* (applied: the table has that column; the error of the update is dropped).
\* recorded: the insert of the new failure record went through
RetryFailedOrder(id, dbOk, applied, recorded) ==
    /\ \E f \in order_failures : f.id = id
    /\ LET f == FailureById(order_failures, id)
           out == CreateOrderOutcome(Tables, f.msg, dbOk)
           db == CreateOrderRows(Tables, f.msg, NumDeliveries + id, dbOk)
           g == IF out # "error" THEN [f EXCEPT !.status = "success"]
                ELSE IF applied THEN [f EXCEPT !.retry_count = f.retry_count + 1]
                ELSE f
           new == IF out = "error" /\ recorded
                  THEN {OrderFailure(NumDeliveries + Cardinality(order_failures) + 1,
                                     f.msg, now)}
                  ELSE {}
       IN /\ f.status # "success"
          /\ NoPendingConflict(f.msg)
          /\ recorded => out = "error" /\ Cardinality(order_failures) < MaxFailures
          /\ applied => out = "error" /\ f.retry_count < MaxRetryCount
          /\ order_failures' = ((order_failures \ {f}) \cup {g}) \cup new
          /\ orders' = db.orders
          /\ order_items' = db.items
          /\ order_idempotency' = db.idem
          /\ lastRetry' = [kind |-> "manual", id |-> id,
                           duplicate |-> out = "duplicate",
                           clear |-> out = "created",
                           before |-> f.retry_count, after |-> g.retry_count,
                           status |-> g.status]
    /\ UNCHANGED <<delivery, succeeded, mq, handler, lastTick>>

\* executeSeckill after a successful purchase: the order message is sent; an
\* error of the send is logged and the result stays success
executeSeckill(m, sent) ==
    /\ m \notin succeeded
    /\ succeeded' = succeeded \cup {m}
    /\ mq' = IF sent THEN mq \cup {m} ELSE mq
    /\ UNCHANGED <<handler, lastRetry, lastTick>>

TickComp ==
    /\ now < MaxCompTime
    /\ now' = now + 1
    /\ UNCHANGED <<stock_key, users_key, activity_key, purchase_key>>
    /\ UNCHANGED histVars

InitOrder ==
    /\ InitStore
    /\ InitBurstIdle
    /\ InitCacheIdle
    /\ InitOrderIdle
    /\ InitStatsIdle
    /\ InitMultiIdle
    /\ InitSettleIdle
    /\ InitFixIdle
    /\ InitRetryIdle
    /\ InitInvIdle
    /\ InitAdmIdle
    /\ InitCompIdle
    /\ InitBreakerIdle
    /\ InitLimiterIdle
    /\ InitQueueIdle

NextOrder ==
    \/ /\ \E d \in Deliveries, m \in 1..Len(Messages) : HandleSeckillOrder(d, m)
       /\ UNCHANGED <<storeVars, histVars, burstVars, cacheVars, breakerVars, limiterVars, queueVars, compVars, admVars, invVars, retryVars, fixVars, settleVars, multiVars, statsVars>>
    \/ /\ \E d \in Deliveries : CheckIdempotency(d)
       /\ UNCHANGED <<storeVars, histVars, burstVars, cacheVars, breakerVars, limiterVars, queueVars, compVars, admVars, invVars, retryVars, fixVars, settleVars, multiVars, statsVars>>
    \/ /\ \E d \in Deliveries : InsertOrder(d)
       /\ UNCHANGED <<storeVars, histVars, burstVars, cacheVars, breakerVars, limiterVars, queueVars, compVars, admVars, invVars, retryVars, fixVars, settleVars, multiVars, statsVars>>
    \/ /\ \E d \in Deliveries : InsertOrderItem(d)
       /\ UNCHANGED <<storeVars, histVars, burstVars, cacheVars, breakerVars, limiterVars, queueVars, compVars, admVars, invVars, retryVars, fixVars, settleVars, multiVars, statsVars>>
    \/ /\ \E d \in Deliveries : InsertIdempotency(d)
       /\ UNCHANGED <<storeVars, histVars, burstVars, cacheVars, breakerVars, limiterVars, queueVars, compVars, admVars, invVars, retryVars, fixVars, settleVars, multiVars, statsVars>>
    \/ /\ \E d \in Deliveries : Commit(d)
       /\ UNCHANGED <<storeVars, histVars, burstVars, cacheVars, breakerVars, limiterVars, queueVars, compVars, admVars, invVars, retryVars, fixVars, settleVars, multiVars, statsVars>>
    \/ /\ \E d \in Deliveries : recordOrderFailure(d)
       /\ UNCHANGED <<storeVars, histVars, burstVars, cacheVars, breakerVars, limiterVars, queueVars, compVars, admVars, invVars, retryVars, fixVars, settleVars, multiVars, statsVars>>

SpecOrder == InitOrder /\ [][NextOrder]_vars

(* ------------------------------------------------------------------------ *)
(* Purchases, deliveries of their messages, and the compensation of the      *)
(* failed deliveries, with either implementation of CompensationHandler      *)
(* ------------------------------------------------------------------------ *)

InitCompensation ==
    /\ InitStore
    /\ InitBurstIdle
    /\ InitCacheIdle
    /\ InitOrderIdle
    /\ InitStatsIdle
    /\ InitMultiIdle
    /\ InitSettleIdle
    /\ InitFixIdle
    /\ InitRetryIdle
    /\ InitInvIdle
    /\ InitAdmIdle
    /\ InitBreakerIdle
    /\ InitLimiterIdle
    /\ InitQueueIdle
    /\ succeeded = {}
    /\ mq = {}
    /\ handler \in {"OrderService", "Default"}
    /\ lastRetry = NoRetry
    /\ lastTick = NoTick

NextCompensation ==
    \/ /\ \E m \in 1..CompMessages, sent \in BOOLEAN : executeSeckill(m, sent)
       /\ UNCHANGED <<storeVars, histVars, burstVars, cacheVars, orderVars, breakerVars, limiterVars, queueVars, admVars, invVars, retryVars, fixVars, settleVars, multiVars, statsVars>>
    \/ /\ \E d \in 1..CompDeliveries, m \in mq : HandleSeckillOrder(d, m)
       /\ UNCHANGED <<storeVars, histVars, burstVars, cacheVars, breakerVars, limiterVars, queueVars, compVars, admVars, invVars, retryVars, fixVars, settleVars, multiVars, statsVars>>
    \/ /\ \E d \in 1..CompDeliveries : CheckIdempotency(d)
       /\ UNCHANGED <<storeVars, histVars, burstVars, cacheVars, breakerVars, limiterVars, queueVars, compVars, admVars, invVars, retryVars, fixVars, settleVars, multiVars, statsVars>>
    \/ /\ \E d \in 1..CompDeliveries : CheckIdempotencyError(d)
       /\ UNCHANGED <<storeVars, histVars, burstVars, cacheVars, breakerVars, limiterVars, queueVars, compVars, admVars, invVars, retryVars, fixVars, settleVars, multiVars, statsVars>>
    \/ /\ \E d \in 1..CompDeliveries : InsertOrder(d)
       /\ UNCHANGED <<storeVars, histVars, burstVars, cacheVars, breakerVars, limiterVars, queueVars, compVars, admVars, invVars, retryVars, fixVars, settleVars, multiVars, statsVars>>
    \/ /\ \E d \in 1..CompDeliveries : InsertOrderItem(d)
       /\ UNCHANGED <<storeVars, histVars, burstVars, cacheVars, breakerVars, limiterVars, queueVars, compVars, admVars, invVars, retryVars, fixVars, settleVars, multiVars, statsVars>>
    \/ /\ \E d \in 1..CompDeliveries : InsertIdempotency(d)
       /\ UNCHANGED <<storeVars, histVars, burstVars, cacheVars, breakerVars, limiterVars, queueVars, compVars, admVars, invVars, retryVars, fixVars, settleVars, multiVars, statsVars>>
    \/ /\ \E d \in 1..CompDeliveries : Commit(d)
       /\ UNCHANGED <<storeVars, histVars, burstVars, cacheVars, breakerVars, limiterVars, queueVars, compVars, admVars, invVars, retryVars, fixVars, settleVars, multiVars, statsVars>>
    \/ /\ \E d \in 1..CompDeliveries : recordOrderFailure(d)
       /\ UNCHANGED <<storeVars, histVars, burstVars, cacheVars, breakerVars, limiterVars, queueVars, compVars, admVars, invVars, retryVars, fixVars, settleVars, multiVars, statsVars>>
    \/ /\ \E dbOk \in BOOLEAN : processFailedOrders(dbOk)
       /\ UNCHANGED <<storeVars, histVars, burstVars, cacheVars, breakerVars, limiterVars, queueVars, admVars, invVars, retryVars, fixVars, settleVars, multiVars, statsVars>>
    \/ /\ \E id \in 1..(NumDeliveries + MaxFailures), dbOk \in BOOLEAN,
             applied \in BOOLEAN, recorded \in BOOLEAN :
             RetryFailedOrder(id, dbOk, applied, recorded)
       /\ UNCHANGED <<storeVars, histVars, burstVars, cacheVars, breakerVars, limiterVars, queueVars, admVars, invVars, retryVars, fixVars, settleVars, multiVars, statsVars>>
    \/ /\ TickComp
       /\ UNCHANGED <<burstVars, cacheVars, orderVars, breakerVars, limiterVars, queueVars, compVars, admVars, invVars, retryVars, fixVars, settleVars, multiVars, statsVars>>

SpecCompensation == InitCompensation /\ [][NextCompensation]_vars

\* the consumer delivers what the queue holds, the transactions run on, the
\* cron job fires and the clock moves; the manual retries are not forced
FairCompensation ==
    /\ \A d \in 1..CompDeliveries :
          /\ WF_orderVars(\E m \in mq : HandleSeckillOrder(d, m))
          /\ WF_orderVars(CheckIdempotency(d))
          /\ WF_orderVars(InsertOrder(d))
          /\ WF_orderVars(InsertOrderItem(d))
          /\ WF_orderVars(InsertIdempotency(d))
          /\ WF_orderVars(Commit(d))
          /\ WF_orderVars(recordOrderFailure(d))
    /\ WF_<<orderVars, compVars>>(\E dbOk \in BOOLEAN : processFailedOrders(dbOk))
    /\ WF_now(TickComp)

SpecCompensationLive == InitCompensation /\ [][NextCompensation]_vars /\ FairCompensation

(* ------------------------------------------------------------------------ *)
(* seckill-service: ProcessSeckill and ProcessSeckillAsync on one limiter,   *)
(* one breaker and one queue, under a running clock                          *)
(* ------------------------------------------------------------------------ *)

\* NewSeckillService: a token bucket, a breaker with the configured
\* HalfOpenRequests and ReadyToTrip, a started queue
InitAdmission ==
    /\ InitStore
    /\ InitBurstIdle
    /\ InitCacheIdle
    /\ InitOrderIdle
    /\ InitStatsIdle
    /\ InitMultiIdle
    /\ InitSettleIdle
    /\ InitFixIdle
    /\ InitRetryIdle
    /\ InitInvIdle
    /\ InitCompIdle
    /\ InitQueueIdle
    /\ InitAdmIdle
    /\ \E m \in 0..MaxHalfOpen :
          cb = [NewCircuitBreaker(m, 0) EXCEPT !.readyToTrip = "service"]
    /\ caller = [c \in Callers |-> [pc |-> "idle", generation |-> 0]]
    /\ cbHist = <<>>
    /\ cbLast = NoCall
    /\ tripHist = <<>>
    /\ ncalls = 0
    /\ tb = NewTokenBucketLimiter(<<RequestsPerTick, 1>>, BurstSize, 0)
    /\ tbReqs = <<>>
    /\ sw = NewSlidingWindowLimiter(1, 1)
    /\ swReqs = <<>>
    /\ waiter = NoWaiter

NextAdmission ==
    \/ /\ \E c \in Callers, enable \in BOOLEAN : ProcessSeckill(c, enable)
       /\ UNCHANGED <<storeVars, histVars, burstVars, cacheVars, orderVars, compVars, invVars, retryVars, fixVars, settleVars, multiVars, statsVars>>
    \/ /\ \E c \in Callers, outcome \in Outcomes : ProcessSeckillReturn(c, outcome)
       /\ UNCHANGED <<storeVars, histVars, burstVars, cacheVars, orderVars, compVars, invVars, retryVars, fixVars, settleVars, multiVars, statsVars>>
    \/ /\ \E i \in 1..AsyncRequests, enable \in BOOLEAN : ProcessSeckillAsync(i, enable)
       /\ UNCHANGED <<storeVars, histVars, burstVars, cacheVars, orderVars, compVars, invVars, retryVars, fixVars, settleVars, multiVars, statsVars>>
    \/ /\ \E i \in 1..AsyncRequests : SubmitSelect(i)
       /\ UNCHANGED <<storeVars, histVars, burstVars, cacheVars, orderVars, breakerVars, limiterVars, compVars, admVars, invVars, retryVars, fixVars, settleVars, multiVars, statsVars>>
    \/ /\ SchedulerReceive
       /\ UNCHANGED <<storeVars, histVars, burstVars, cacheVars, orderVars, breakerVars, limiterVars, compVars, admVars, invVars, retryVars, fixVars, settleVars, multiVars, statsVars>>
    \/ /\ SchedulerSend
       /\ UNCHANGED <<storeVars, histVars, burstVars, cacheVars, orderVars, breakerVars, limiterVars, compVars, admVars, invVars, retryVars, fixVars, settleVars, multiVars, statsVars>>
    \/ /\ \E w \in Workers : processQueueItem(w)
       /\ UNCHANGED <<storeVars, histVars, burstVars, cacheVars, orderVars, compVars, invVars, retryVars, fixVars, settleVars, multiVars, statsVars>>
    \/ /\ \E w \in Workers, ok \in BOOLEAN : WorkerFinish(w, ok)
       /\ UNCHANGED <<storeVars, histVars, burstVars, cacheVars, orderVars, breakerVars, limiterVars, compVars, admVars, invVars, retryVars, fixVars, settleVars, multiVars, statsVars>>
    \/ /\ \E i \in 1..AsyncRequests : Await(i)
       /\ UNCHANGED <<storeVars, histVars, burstVars, cacheVars, orderVars, breakerVars, limiterVars, compVars, admVars, invVars, retryVars, fixVars, settleVars, multiVars, statsVars>>
    \/ /\ TickBreaker
       /\ UNCHANGED <<burstVars, cacheVars, orderVars, limiterVars, queueVars, compVars, admVars, invVars, retryVars, fixVars, settleVars, multiVars, statsVars>>

SpecAdmission == InitAdmission /\ [][NextAdmission]_vars

(* ------------------------------------------------------------------------ *)
(* inventory-service: concurrent SyncStock calls and the health check of one *)
(* product; the fast-path stock is any value at the start and is written by  *)
(* the fix only                                                              *)
(* ------------------------------------------------------------------------ *)

InitInventory ==
    /\ users_key = {}
    /\ activity_key = <<>>
    /\ purchase_key = [u \in UserIds |-> <<>>]
    /\ now = 0
    /\ stock_key \in {<<>>} \cup {<<n>> : n \in 0..MaxFastStock}
    /\ initialStock = 0
    /\ granted = 0
    /\ restored = 0
    /\ successes = [u \in UserIds |-> 0]
    /\ last = NoOp
    /\ nops = 0
    /\ InitBurstIdle
    /\ InitCacheIdle
    /\ InitOrderIdle
    /\ InitStatsIdle
    /\ InitMultiIdle
    /\ InitSettleIdle
    /\ InitFixIdle
    /\ InitRetryIdle
    /\ InitCompIdle
    /\ InitAdmIdle
    /\ InitBreakerIdle
    /\ InitLimiterIdle
    /\ InitQueueIdle
    /\ inventories \in {NoRow} \cup {[exists |-> TRUE, stock |-> n, version |-> v] :
                                       n \in 0..MaxInvStock, v \in 0..MaxVersion}
    /\ inventories0 = inventories
    /\ inventory_logs = <<>>
    /\ inventory_diffs = <<>>
    /\ inventory_alerts = {}
    /\ rowLock = 0
    /\ syncTx = [c \in SyncCalls |-> IdleSync]
    /\ autoFix \in BOOLEAN
    /\ syncLast = NoSync
    /\ hcLast = NoCycle

NextInventory ==
    \/ /\ \E c \in SyncCalls, pid \in {0, 1}, delta \in (-MaxDelta)..MaxDelta,
             dbOk \in BOOLEAN : SyncBegin(c, pid, delta, dbOk)
       /\ UNCHANGED <<storeVars, histVars, burstVars, cacheVars, orderVars, breakerVars, limiterVars, queueVars, compVars, admVars, retryVars, fixVars, settleVars, multiVars, statsVars>>
    \/ /\ \E c \in SyncCalls, dbOk \in BOOLEAN : SyncCreate(c, dbOk)
       /\ UNCHANGED <<storeVars, histVars, burstVars, cacheVars, orderVars, breakerVars, limiterVars, queueVars, compVars, admVars, retryVars, fixVars, settleVars, multiVars, statsVars>>
    \/ /\ \E c \in SyncCalls, dbOk \in BOOLEAN : SyncUpdate(c, dbOk)
       /\ UNCHANGED <<storeVars, histVars, burstVars, cacheVars, orderVars, breakerVars, limiterVars, queueVars, compVars, admVars, retryVars, fixVars, settleVars, multiVars, statsVars>>
    \/ /\ \E c \in SyncCalls, dbOk \in BOOLEAN : SyncLog(c, dbOk)
       /\ UNCHANGED <<storeVars, histVars, burstVars, cacheVars, orderVars, breakerVars, limiterVars, queueVars, compVars, admVars, retryVars, fixVars, settleVars, multiVars, statsVars>>
    \/ /\ \E c \in SyncCalls, dbOk \in BOOLEAN : SyncCommit(c, dbOk)
       /\ UNCHANGED <<storeVars, histVars, burstVars, cacheVars, orderVars, breakerVars, limiterVars, queueVars, compVars, admVars, retryVars, fixVars, settleVars, multiVars, statsVars>>
    \/ /\ \E redisOk \in BOOLEAN, diffOk \in BOOLEAN, dbOk \in BOOLEAN :
             performHealthCheck(redisOk, diffOk, dbOk)
       /\ UNCHANGED <<histVars, burstVars, cacheVars, orderVars, breakerVars, limiterVars, queueVars, compVars, admVars, retryVars, fixVars, settleVars, multiVars, statsVars>>

SpecInventory == InitInventory /\ [][NextInventory]_vars

(* ------------------------------------------------------------------------ *)
(* The circuit breaker under concurrent callers and a running clock          *)
(* ------------------------------------------------------------------------ *)

InitBreaker ==
    /\ InitStore
    /\ InitBurstIdle
    /\ InitCacheIdle
    /\ InitOrderIdle
    /\ InitStatsIdle
    /\ InitMultiIdle
    /\ InitSettleIdle
    /\ InitFixIdle
    /\ InitRetryIdle
    /\ InitInvIdle
    /\ InitAdmIdle
    /\ InitCompIdle
    /\ InitLimiterIdle
    /\ InitQueueIdle
    /\ \E m \in 0..MaxHalfOpen : cb = NewCircuitBreaker(m, 0)
    /\ caller = [c \in Callers |-> [pc |-> "idle", generation |-> 0]]
    /\ cbHist = <<>>
    /\ cbLast = NoCall
    /\ tripHist = <<>>
    /\ ncalls = 0

NextBreaker ==
    \/ /\ \E c \in Callers : beforeRequest(c)
       /\ UNCHANGED <<storeVars, histVars, burstVars, cacheVars, orderVars, limiterVars, queueVars, compVars, admVars, invVars, retryVars, fixVars, settleVars, multiVars, statsVars>>
    \/ /\ \E c \in Callers, success \in BOOLEAN : afterRequest(c, success)
       /\ UNCHANGED <<storeVars, histVars, burstVars, cacheVars, orderVars, limiterVars, queueVars, compVars, admVars, invVars, retryVars, fixVars, settleVars, multiVars, statsVars>>
    \/ /\ TickBreaker
       /\ UNCHANGED <<burstVars, cacheVars, orderVars, limiterVars, queueVars, compVars, admVars, invVars, retryVars, fixVars, settleVars, multiVars, statsVars>>

SpecBreaker == InitBreaker /\ [][NextBreaker]_vars

(* ------------------------------------------------------------------------ *)
(* The limiters under a running clock                                        *)
(* ------------------------------------------------------------------------ *)

InitTokenBucket ==
    /\ InitStore
    /\ InitBurstIdle
    /\ InitCacheIdle
    /\ InitOrderIdle
    /\ InitStatsIdle
    /\ InitMultiIdle
    /\ InitSettleIdle
    /\ InitFixIdle
    /\ InitRetryIdle
    /\ InitInvIdle
    /\ InitAdmIdle
    /\ InitCompIdle
    /\ InitBreakerIdle
    /\ InitQueueIdle
    /\ \E rate \in Rates, capacity \in 1..MaxCapacity :
          tb = NewTokenBucketLimiter(rate, capacity, 0)
    /\ tbReqs = <<>>
    /\ sw = NewSlidingWindowLimiter(1, 1)
    /\ swReqs = <<>>
    /\ waiter = NoWaiter

NextTokenBucket ==
    \/ /\ \E n \in 1..MaxN : TokenBucketAllowN(n)
       /\ UNCHANGED <<storeVars, histVars, burstVars, cacheVars, orderVars, breakerVars, queueVars, compVars, admVars, invVars, retryVars, fixVars, settleVars, multiVars, statsVars>>
    \/ /\ TickLimiter
       /\ UNCHANGED <<burstVars, cacheVars, orderVars, breakerVars, queueVars, compVars, admVars, invVars, retryVars, fixVars, settleVars, multiVars, statsVars>>

SpecTokenBucket == InitTokenBucket /\ [][NextTokenBucket]_vars

InitSlidingWindow ==
    /\ InitStore
    /\ InitBurstIdle
    /\ InitCacheIdle
    /\ InitOrderIdle
    /\ InitStatsIdle
    /\ InitMultiIdle
    /\ InitSettleIdle
    /\ InitFixIdle
    /\ InitRetryIdle
    /\ InitInvIdle
    /\ InitAdmIdle
    /\ InitCompIdle
    /\ InitBreakerIdle
    /\ InitQueueIdle
    /\ tb = NewTokenBucketLimiter(<<1, 1>>, 1, 0)
    /\ tbReqs = <<>>
    /\ \E limit \in 1..MaxLimit, window \in 1..MaxWindow :
          sw = NewSlidingWindowLimiter(limit, window)
    /\ swReqs = <<>>
    /\ waiter = NoWaiter

NextSlidingWindow ==
    \/ /\ \E n \in 0..MaxN : SlidingWindowAllowN(n)
       /\ UNCHANGED <<storeVars, histVars, burstVars, cacheVars, orderVars, breakerVars, queueVars, compVars, admVars, invVars, retryVars, fixVars, settleVars, multiVars, statsVars>>
    \/ /\ TickLimiter
       /\ UNCHANGED <<burstVars, cacheVars, orderVars, breakerVars, queueVars, compVars, admVars, invVars, retryVars, fixVars, settleVars, multiVars, statsVars>>

SpecSlidingWindow == InitSlidingWindow /\ [][NextSlidingWindow]_vars

(* ------------------------------------------------------------------------ *)
(* The request queue: submitters, scheduler, workers, clock, shutdown        *)
(* ------------------------------------------------------------------------ *)

InitQueue ==
    /\ InitStore
    /\ InitBurstIdle
    /\ InitCacheIdle
    /\ InitOrderIdle
    /\ InitStatsIdle
    /\ InitMultiIdle
    /\ InitSettleIdle
    /\ InitFixIdle
    /\ InitRetryIdle
    /\ InitInvIdle
    /\ InitAdmIdle
    /\ InitCompIdle
    /\ InitBreakerIdle
    /\ InitLimiterIdle
    /\ InitQueueIdle

NextQueue ==
    \/ /\ \E i \in Items, mode \in {"sync", "async"}, timeout \in 0..MaxItemTimeout,
             cancelled \in BOOLEAN : SubmitStart(i, mode, timeout, cancelled)
       /\ UNCHANGED <<storeVars, histVars, burstVars, cacheVars, orderVars, breakerVars, limiterVars, compVars, admVars, invVars, retryVars, fixVars, settleVars, multiVars, statsVars>>
    \/ /\ \E i \in Items : SubmitSelect(i)
       /\ UNCHANGED <<storeVars, histVars, burstVars, cacheVars, orderVars, breakerVars, limiterVars, compVars, admVars, invVars, retryVars, fixVars, settleVars, multiVars, statsVars>>
    \/ /\ \E i \in Items : Await(i)
       /\ UNCHANGED <<storeVars, histVars, burstVars, cacheVars, orderVars, breakerVars, limiterVars, compVars, admVars, invVars, retryVars, fixVars, settleVars, multiVars, statsVars>>
    \/ /\ \E i \in Items : CancelItem(i)
       /\ UNCHANGED <<storeVars, histVars, burstVars, cacheVars, orderVars, breakerVars, limiterVars, compVars, admVars, invVars, retryVars, fixVars, settleVars, multiVars, statsVars>>
    \/ /\ SchedulerReceive
       /\ UNCHANGED <<storeVars, histVars, burstVars, cacheVars, orderVars, breakerVars, limiterVars, compVars, admVars, invVars, retryVars, fixVars, settleVars, multiVars, statsVars>>
    \/ /\ SchedulerSend
       /\ UNCHANGED <<storeVars, histVars, burstVars, cacheVars, orderVars, breakerVars, limiterVars, compVars, admVars, invVars, retryVars, fixVars, settleVars, multiVars, statsVars>>
    \/ /\ \E w \in Workers : WorkerReceive(w)
       /\ UNCHANGED <<storeVars, histVars, burstVars, cacheVars, orderVars, breakerVars, limiterVars, compVars, admVars, invVars, retryVars, fixVars, settleVars, multiVars, statsVars>>
    \/ /\ \E w \in Workers, ok \in BOOLEAN : WorkerFinish(w, ok)
       /\ UNCHANGED <<storeVars, histVars, burstVars, cacheVars, orderVars, breakerVars, limiterVars, compVars, admVars, invVars, retryVars, fixVars, settleVars, multiVars, statsVars>>
    \/ /\ CancelQueue
       /\ UNCHANGED <<storeVars, histVars, burstVars, cacheVars, orderVars, breakerVars, limiterVars, compVars, admVars, invVars, retryVars, fixVars, settleVars, multiVars, statsVars>>
    \/ /\ TickQueue
       /\ UNCHANGED <<burstVars, cacheVars, orderVars, breakerVars, limiterVars, compVars, admVars, invVars, retryVars, fixVars, settleVars, multiVars, statsVars>>

SpecQueue == InitQueue /\ [][NextQueue]_vars

\* the goroutines run whenever they can: submitters, scheduler and workers
\* take their steps and the processor returns; the clock and the
\* cancellations are not forced
FairQueue ==
    /\ \A i \in Items : WF_queueVars(SubmitSelect(i)) /\ WF_queueVars(Await(i))
    /\ WF_queueVars(SchedulerReceive)
    /\ WF_queueVars(SchedulerSend)
    /\ \A w \in Workers : WF_queueVars(WorkerReceive(w))
    /\ \A w \in Workers : WF_queueVars(\E ok \in BOOLEAN : WorkerFinish(w, ok))
    /\ WF_now(TickQueue)

SpecQueueLive == InitQueue /\ [][NextQueue]_vars /\ FairQueue

(* ------------------------------------------------------------------------ *)
(* The blocking waits and the cancellation of the caller's context: one      *)
(* call of TokenBucketLimiter.WaitN, or one of RequestQueue.Submit, or one   *)
(* of DistributedLock.TryLock on a lock another instance may hold.  The      *)
(* limiter starts with any number of its tokens left.                        *)
(* ------------------------------------------------------------------------ *)

InitWait ==
    /\ InitStore
    /\ InitBurstIdle
    /\ InitOrderIdle
    /\ InitStatsIdle
    /\ InitMultiIdle
    /\ InitSettleIdle
    /\ InitFixIdle
    /\ InitRetryIdle
    /\ InitInvIdle
    /\ InitAdmIdle
    /\ InitCompIdle
    /\ InitBreakerIdle
    /\ InitQueueIdle
    /\ \E rate \in Rates, capacity \in 1..MaxCapacity, tokens \in 0..MaxCapacity :
          /\ tokens <= capacity
          /\ tb = [NewTokenBucketLimiter(rate, capacity, 0) EXCEPT !.tokens = tokens]
    /\ tbReqs = <<>>
    /\ sw = NewSlidingWindowLimiter(1, 1)
    /\ swReqs = <<>>
    /\ waiter = NoWaiter
    /\ \E taken \in BOOLEAN :
          /\ lock_key = IF taken THEN <<0>> ELSE <<>>
          /\ holder = IF taken THEN NumClients ELSE 0
    /\ client = [c \in Clients |-> IdleClient]
    /\ held = [u \in UserIds |-> 0]

\* no wait of the three has been called yet
NoWaitYet == waiter.pc = "idle" /\ item[1].pc = "none" /\ client[1].pc = "idle"

NextWait ==
    \/ /\ NoWaitYet
       /\ \E n \in 0..(MaxCapacity + 1), cancelled \in BOOLEAN : CallWaitN(n, cancelled)
       /\ UNCHANGED <<storeVars, histVars, burstVars, cacheVars, orderVars, breakerVars, queueVars, compVars, admVars, invVars, retryVars, fixVars, settleVars, multiVars, statsVars>>
    \/ /\ WaitNAllow
       /\ UNCHANGED <<storeVars, histVars, burstVars, cacheVars, orderVars, breakerVars, queueVars, compVars, admVars, invVars, retryVars, fixVars, settleVars, multiVars, statsVars>>
    \/ /\ WaitNDone
       /\ UNCHANGED <<storeVars, histVars, burstVars, cacheVars, orderVars, breakerVars, queueVars, compVars, admVars, invVars, retryVars, fixVars, settleVars, multiVars, statsVars>>
    \/ /\ WaitNTimer
       /\ UNCHANGED <<storeVars, histVars, burstVars, cacheVars, orderVars, breakerVars, queueVars, compVars, admVars, invVars, retryVars, fixVars, settleVars, multiVars, statsVars>>
    \/ /\ CancelWait
       /\ UNCHANGED <<storeVars, histVars, burstVars, cacheVars, orderVars, breakerVars, queueVars, compVars, admVars, invVars, retryVars, fixVars, settleVars, multiVars, statsVars>>
    \/ /\ waiter.pc # "idle"
       /\ TickLimiter
       /\ UNCHANGED <<burstVars, cacheVars, orderVars, breakerVars, queueVars, compVars, admVars, invVars, retryVars, fixVars, settleVars, multiVars, statsVars>>
    \/ /\ NoWaitYet
       /\ \E cancelled \in BOOLEAN : SubmitStart(1, "sync", 0, cancelled)
       /\ UNCHANGED <<storeVars, histVars, burstVars, cacheVars, orderVars, breakerVars, limiterVars, compVars, admVars, invVars, retryVars, fixVars, settleVars, multiVars, statsVars>>
    \/ /\ SubmitSelect(1)
       /\ UNCHANGED <<storeVars, histVars, burstVars, cacheVars, orderVars, breakerVars, limiterVars, compVars, admVars, invVars, retryVars, fixVars, settleVars, multiVars, statsVars>>
    \/ /\ Await(1)
       /\ UNCHANGED <<storeVars, histVars, burstVars, cacheVars, orderVars, breakerVars, limiterVars, compVars, admVars, invVars, retryVars, fixVars, settleVars, multiVars, statsVars>>
    \/ /\ CancelItem(1)
       /\ UNCHANGED <<storeVars, histVars, burstVars, cacheVars, orderVars, breakerVars, limiterVars, compVars, admVars, invVars, retryVars, fixVars, settleVars, multiVars, statsVars>>
    \/ /\ SchedulerReceive
       /\ UNCHANGED <<storeVars, histVars, burstVars, cacheVars, orderVars, breakerVars, limiterVars, compVars, admVars, invVars, retryVars, fixVars, settleVars, multiVars, statsVars>>
    \/ /\ SchedulerSend
       /\ UNCHANGED <<storeVars, histVars, burstVars, cacheVars, orderVars, breakerVars, limiterVars, compVars, admVars, invVars, retryVars, fixVars, settleVars, multiVars, statsVars>>
    \/ /\ \E w \in Workers : WorkerReceive(w)
       /\ UNCHANGED <<storeVars, histVars, burstVars, cacheVars, orderVars, breakerVars, limiterVars, compVars, admVars, invVars, retryVars, fixVars, settleVars, multiVars, statsVars>>
    \/ /\ \E w \in Workers, ok \in BOOLEAN : WorkerFinish(w, ok)
       /\ UNCHANGED <<storeVars, histVars, burstVars, cacheVars, orderVars, breakerVars, limiterVars, compVars, admVars, invVars, retryVars, fixVars, settleVars, multiVars, statsVars>>
    \/ /\ NoWaitYet
       /\ \E u \in ValidUsers, q \in 1..MaxQty, dt \in 0..1 : CallSeckillPurchase(1, u, q, dt)
       /\ UNCHANGED <<burstVars, orderVars, breakerVars, limiterVars, queueVars, compVars, admVars, invVars, retryVars, fixVars, settleVars, multiVars, statsVars>>
    \/ /\ TryLock(1)
       /\ UNCHANGED <<burstVars, orderVars, breakerVars, limiterVars, queueVars, compVars, admVars, invVars, retryVars, fixVars, settleVars, multiVars, statsVars>>
    \/ /\ CancelClient(1)
       /\ UNCHANGED <<burstVars, orderVars, breakerVars, limiterVars, queueVars, compVars, admVars, invVars, retryVars, fixVars, settleVars, multiVars, statsVars>>
    \/ /\ client[1].pc = "trylock"
       /\ LockExpire
       /\ UNCHANGED <<burstVars, orderVars, breakerVars, limiterVars, queueVars, compVars, admVars, invVars, retryVars, fixVars, settleVars, multiVars, statsVars>>

\* the waiting goroutines take their steps, and a select whose ctx.Done case
\* is ready again and again takes it in the end (the ready cases of a select
\* are chosen at random); the clock, the processor and the expiry of the
\* lock are not forced
FairWait ==
    /\ WF_limiterVars(WaitNAllow)
    /\ SF_limiterVars(WaitNDone)
    /\ WF_queueVars(SubmitSelect(1))
    /\ WF_queueVars(Await(1))
    /\ WF_cacheVars(TryLock(1))

SpecWait == InitWait /\ [][NextWait]_vars /\ FairWait

(* ------------------------------------------------------------------------ *)
(* order-service: retry executions running side by side.  cron starts every  *)
(* tick of processFailedOrders in a goroutine of its own, and the handler of *)
(* the retry endpoint runs RetryFailedOrder in the goroutine of its request; *)
(* each statement on table order_failures is a step.                         *)
(* ------------------------------------------------------------------------ *)

Execs == 1..NumExecs

SetRetry(e, fields) == retry' = [retry EXCEPT ![e] = fields]

\* the row of the table with the id of the struct f
RowOf(f) == FailureById(order_failures, f.id)

\* the statement Where("id = ?", id).Updates(...) on one row
UpdateRow(f, row) == order_failures' = (order_failures \ {RowOf(f)}) \cup {row}

\* the loop of processFailedOrders moves to the next struct of the batch, or
\* to the sweep after the last one
NextOfBatch(e) ==
    IF Len(retry[e].batch) > 1
    THEN [retry[e] EXCEPT !.pc = "mark", !.batch = Tail(@)]
    ELSE [retry[e] EXCEPT !.pc = "sweep", !.batch = <<>>]

\* processFailedOrders, the query: the due records are read into structs;
\* an error of the query or an empty result ends the tick
SelectFailures(e, dbOk) ==
    /\ retry[e].pc = "idle"
    /\ LET due == DueFailures(order_failures, now)
       IN IF ~dbOk \/ due = {}
          THEN UNCHANGED retry
          ELSE \E b \in Batches(due) :
                  SetRetry(e, [pc |-> "mark", kind |-> "scheduled",
                               batch |-> [i \in DOMAIN b |->
                                             FailureById(order_failures, b[i])]])
    /\ UNCHANGED <<orders, order_items, order_idempotency, order_failures, delivery>>
    /\ UNCHANGED <<succeeded, mq, handler, lastRetry, lastTick>>

\* processFailedOrder, updateFailureStatus(id, "processing"): the update
\* names the id only; on an error the record is left and the loop goes on
MarkProcessing(e, dbOk) ==
    /\ retry[e].pc = "mark"
    /\ LET f == Head(retry[e].batch)
       IN IF dbOk
          THEN /\ UpdateRow(f, [RowOf(f) EXCEPT !.status = "processing"])
               /\ SetRetry(e, [retry[e] EXCEPT !.pc = "handler"])
          ELSE /\ SetRetry(e, NextOfBatch(e))
               /\ UNCHANGED order_failures
    /\ UNCHANGED <<orders, order_items, order_idempotency, delivery>>
    /\ UNCHANGED <<succeeded, mq, handler, lastRetry, lastTick>>

\* processFailedOrder, the handler and what follows: handleRetrySuccess
\* writes the status; handleRetryFailure raises the count of the struct and
\* writes failed, or count, next retry time and pending
CallHandler(e, dbOk) ==
    /\ retry[e].pc = "handler"
    /\ LET f == Head(retry[e].batch)
           ok == IF handler = "OrderService" THEN OrderServiceProcessFailedOrder(f)
                 ELSE DefaultProcessFailedOrder(Tables, f, dbOk)
           db == IF handler = "OrderService" THEN Tables
                 ELSE CreateOrderRows(Tables, f.msg, NumDeliveries + f.id, dbOk)
           g == IF ok THEN handleRetrySuccess(f) ELSE handleRetryFailure(f, now)
           row == IF g.status = "pending"
                  THEN [RowOf(f) EXCEPT !.retry_count = g.retry_count,
                                        !.next_retry_at = g.next_retry_at,
                                        !.status = "pending"]
                  ELSE [RowOf(f) EXCEPT !.status = g.status]
       IN /\ handler = "Default" => NoPendingConflict(f.msg)
          /\ UpdateRow(f, row)
          /\ orders' = db.orders
          /\ order_items' = db.items
          /\ order_idempotency' = db.idem
          /\ lastRetry' = [kind |-> "scheduled", id |-> f.id,
                           duplicate |-> /\ UserProductTaken(order_idempotency,
                                                             Messages[f.msg])
                                         /\ (handler = "OrderService" \/ dbOk),
                           clear |-> CreateOrderOutcome(Tables, f.msg, dbOk) = "created",
                           before |-> f.retry_count, after |-> row.retry_count,
                           status |-> row.status]
    /\ SetRetry(e, NextOfBatch(e))
    /\ UNCHANGED <<delivery, succeeded, mq, handler, lastTick>>

\* the end of a tick that found records: cleanupExpiredFailures
SweepFailures(e) ==
    /\ retry[e].pc = "sweep"
    /\ order_failures' = cleanupExpiredFailures(order_failures, now)
    /\ lastTick' = [ran |-> TRUE, at |-> now, due |-> TRUE,
                    stale |-> {f.id : f \in StaleFailures(order_failures', now)}]
    /\ SetRetry(e, IdleRetry)
    /\ UNCHANGED <<orders, order_items, order_idempotency, delivery>>
    /\ UNCHANGED <<succeeded, mq, handler, lastRetry>>

\* RetryFailedOrder, the read: the record is read by id into a struct; a
\* record with status success is refused
ReadFailure(e, id) ==
    /\ retry[e].pc = "idle"
    /\ \E f \in order_failures : f.id = id
    /\ LET f == FailureById(order_failures, id)
       IN IF f.status = "success"
          THEN UNCHANGED retry
          ELSE SetRetry(e, [pc |-> "manual", kind |-> "manual", batch |-> <<f>>])
    /\ UNCHANGED <<orders, order_items, order_idempotency, order_failures, delivery>>
    /\ UNCHANGED <<succeeded, mq, handler, lastRetry, lastTick>>

\* RetryFailedOrder after the read: HandleSeckillOrder on the stored
\* message, then the update of the record (see RetryFailedOrder)
HandleFailure(e, dbOk, applied) ==
    /\ retry[e].pc = "manual"
    /\ LET f == Head(retry[e].batch)
           out == CreateOrderOutcome(Tables, f.msg, dbOk)
           db == CreateOrderRows(Tables, f.msg, NumDeliveries + f.id, dbOk)
           row == IF out # "error" THEN [RowOf(f) EXCEPT !.status = "success"]
                  ELSE IF applied
                  THEN [RowOf(f) EXCEPT !.retry_count = f.retry_count + 1]
                  ELSE RowOf(f)
       IN /\ NoPendingConflict(f.msg)
          /\ applied => out = "error" /\ f.retry_count < MaxRetryCount
          /\ UpdateRow(f, row)
          /\ orders' = db.orders
          /\ order_items' = db.items
          /\ order_idempotency' = db.idem
          /\ lastRetry' = [kind |-> "manual", id |-> f.id,
                           duplicate |-> out = "duplicate",
                           clear |-> out = "created",
                           before |-> f.retry_count, after |-> row.retry_count,
                           status |-> row.status]
    /\ SetRetry(e, IdleRetry)
    /\ UNCHANGED <<delivery, succeeded, mq, handler, lastTick>>

\* failed deliveries of the messages have left pending failure records
InitRetryRace ==
    /\ InitStore
    /\ InitBurstIdle
    /\ InitCacheIdle
    /\ InitInvIdle
    /\ InitAdmIdle
    /\ InitBreakerIdle
    /\ InitLimiterIdle
    /\ InitQueueIdle
    /\ InitRetryIdle
    /\ InitFixIdle
    /\ InitSettleIdle
    /\ InitMultiIdle
    /\ InitStatsIdle
    /\ orders = {}
    /\ order_items = {}
    /\ order_idempotency = {}
    /\ \E n \in 1..RaceFailures : order_failures = {OrderFailure(d, d, 0) : d \in 1..n}
    /\ delivery = [d \in Deliveries |->
                     IF \E f \in order_failures : f.id = d
                     THEN [pc |-> "done", msg |-> d, result |-> "failed"]
                     ELSE IdleDelivery]
    /\ succeeded = {f.msg : f \in order_failures}
    /\ mq = succeeded
    /\ handler \in {"OrderService", "Default"}
    /\ lastRetry = NoRetry
    /\ lastTick = NoTick

NextRetryRace ==
    \/ /\ \E e \in Execs, dbOk \in BOOLEAN : SelectFailures(e, dbOk)
       /\ UNCHANGED <<storeVars, histVars, burstVars, cacheVars, breakerVars, limiterVars, queueVars, admVars, invVars, fixVars, settleVars, multiVars, statsVars>>
    \/ /\ \E e \in Execs, dbOk \in BOOLEAN : MarkProcessing(e, dbOk)
       /\ UNCHANGED <<storeVars, histVars, burstVars, cacheVars, breakerVars, limiterVars, queueVars, admVars, invVars, fixVars, settleVars, multiVars, statsVars>>
    \/ /\ \E e \in Execs, dbOk \in BOOLEAN : CallHandler(e, dbOk)
       /\ UNCHANGED <<storeVars, histVars, burstVars, cacheVars, breakerVars, limiterVars, queueVars, admVars, invVars, fixVars, settleVars, multiVars, statsVars>>
    \/ /\ \E e \in Execs : SweepFailures(e)
       /\ UNCHANGED <<storeVars, histVars, burstVars, cacheVars, breakerVars, limiterVars, queueVars, admVars, invVars, fixVars, settleVars, multiVars, statsVars>>
    \/ /\ \E e \in Execs, id \in 1..RaceFailures : ReadFailure(e, id)
       /\ UNCHANGED <<storeVars, histVars, burstVars, cacheVars, breakerVars, limiterVars, queueVars, admVars, invVars, fixVars, settleVars, multiVars, statsVars>>
    \/ /\ \E e \in Execs, dbOk \in BOOLEAN, applied \in BOOLEAN : HandleFailure(e, dbOk, applied)
       /\ UNCHANGED <<storeVars, histVars, burstVars, cacheVars, breakerVars, limiterVars, queueVars, admVars, invVars, fixVars, settleVars, multiVars, statsVars>>
    \/ /\ TickComp
       /\ UNCHANGED <<burstVars, cacheVars, orderVars, breakerVars, limiterVars, queueVars, compVars, admVars, invVars, retryVars, fixVars, settleVars, multiVars, statsVars>>

SpecRetryRace == InitRetryRace /\ [][NextRetryRace]_vars

(* ------------------------------------------------------------------------ *)
(* inventory-service: FixInventoryDiff calls on one diff row, from the fix   *)
(* endpoint and from the automatic fix, running side by side: the read of    *)
(* the row, the correction and the update of the row are three steps.        *)
(* ------------------------------------------------------------------------ *)

FixCalls == 1..NumFixCalls

SetFix(c, fields) == fixCall' = [fixCall EXCEPT ![c] = fields]

\* FixInventoryDiff, the read: First of the row with the id and status
\* pending; an error or no such row ends the call
FixRead(c, diffID, type, dbOk) ==
    /\ fixCall[c].pc = "idle"
    /\ LET found == /\ dbOk
                    /\ diffID \in 1..Len(inventory_diffs)
                    /\ inventory_diffs[diffID].status = "pending"
       IN SetFix(c, IF found
                    THEN [pc |-> "apply", type |-> type, id |-> diffID,
                          diff |-> <<inventory_diffs[diffID]>>, result |-> ""]
                    ELSE [IdleFix EXCEPT !.pc = "done", !.type = type, !.id = diffID,
                                         !.result = "error"])
    /\ UNCHANGED <<stock_key, inventories, inventory_logs, inventory_diffs, fixApplied>>

\* FixInventoryDiff, the correction: use_db sets the fast-path key to the
\* db_stock of the row read; use_redis calls SyncStock with redis_stock -
\* db_stock and looks at its error only; any other type is an error
FixApply(c, redisOk, dbOk) ==
    /\ fixCall[c].pc = "apply"
    /\ LET d == fixCall[c].diff[1]
           sync == SyncStock(inventories, d.redis_stock - d.db_stock, dbOk)
           failed == [fixCall[c] EXCEPT !.pc = "done", !.result = "error"]
       IN IF fixCall[c].type = "use_db"
          THEN /\ stock_key' = IF redisOk THEN <<d.db_stock>> ELSE stock_key
               /\ SetFix(c, IF redisOk THEN [fixCall[c] EXCEPT !.pc = "mark"] ELSE failed)
               /\ fixApplied' = IF redisOk THEN fixApplied + 1 ELSE fixApplied
               /\ UNCHANGED <<inventories, inventory_logs>>
          ELSE IF fixCall[c].type = "use_redis"
          THEN /\ inventories' = sync.row
               /\ inventory_logs' = inventory_logs \o sync.log
               /\ SetFix(c, IF sync.err THEN failed ELSE [fixCall[c] EXCEPT !.pc = "mark"])
               /\ fixApplied' = IF sync.success THEN fixApplied + 1 ELSE fixApplied
               /\ UNCHANGED stock_key
          ELSE /\ SetFix(c, failed)
               /\ UNCHANGED <<stock_key, inventories, inventory_logs, fixApplied>>
    /\ UNCHANGED inventory_diffs

\* FixInventoryDiff, the update of the row to fixed; its error is returned
FixMark(c, dbOk) ==
    /\ fixCall[c].pc = "mark"
    /\ inventory_diffs' = IF dbOk
                          THEN [inventory_diffs EXCEPT ![fixCall[c].id].status = "fixed"]
                          ELSE inventory_diffs
    /\ SetFix(c, [fixCall[c] EXCEPT !.pc = "done",
                                    !.result = IF dbOk THEN "ok" ELSE "error"])
    /\ UNCHANGED <<stock_key, inventories, inventory_logs, fixApplied>>

\* a health check without the automatic fix has recorded a diff beyond the
\* tolerance between the durable stock and the fast-path stock
InitFix ==
    /\ users_key = {}
    /\ activity_key = <<>>
    /\ purchase_key = [u \in UserIds |-> <<>>]
    /\ now = 0
    /\ initialStock = 0
    /\ granted = 0
    /\ restored = 0
    /\ successes = [u \in UserIds |-> 0]
    /\ last = NoOp
    /\ nops = 0
    /\ InitBurstIdle
    /\ InitCacheIdle
    /\ InitOrderIdle
    /\ InitStatsIdle
    /\ InitMultiIdle
    /\ InitSettleIdle
    /\ InitRetryIdle
    /\ InitFixIdle
    /\ InitCompIdle
    /\ InitAdmIdle
    /\ InitBreakerIdle
    /\ InitLimiterIdle
    /\ InitQueueIdle
    /\ \E db \in 0..MaxDiffStock, redis \in 0..MaxDiffStock :
          /\ abs(redis - db) > Tolerance
          /\ stock_key = <<redis>>
          /\ inventories = [exists |-> TRUE, stock |-> db, version |-> 0]
          /\ inventory_diffs = <<InventoryDiff(db, redis)>>
    /\ inventories0 = inventories
    /\ inventory_logs = <<>>
    /\ inventory_alerts = {}
    /\ rowLock = 0
    /\ syncTx = [c \in SyncCalls |-> IdleSync]
    /\ autoFix = FALSE
    /\ syncLast = NoSync
    /\ hcLast = NoCycle

NextFix ==
    \/ /\ \E c \in FixCalls, diffID \in 1..2, type \in {"use_db", "use_redis", ""},
             dbOk \in BOOLEAN : FixRead(c, diffID, type, dbOk)
       /\ UNCHANGED <<users_key, activity_key, purchase_key, now, histVars>>
       /\ UNCHANGED <<inventories0, inventory_alerts, rowLock, syncTx, autoFix, syncLast, hcLast>>
       /\ UNCHANGED <<burstVars, cacheVars, orderVars, breakerVars, limiterVars, queueVars, compVars, admVars, retryVars, settleVars, multiVars, statsVars>>
    \/ /\ \E c \in FixCalls, redisOk \in BOOLEAN, dbOk \in BOOLEAN : FixApply(c, redisOk, dbOk)
       /\ UNCHANGED <<users_key, activity_key, purchase_key, now, histVars>>
       /\ UNCHANGED <<inventories0, inventory_alerts, rowLock, syncTx, autoFix, syncLast, hcLast>>
       /\ UNCHANGED <<burstVars, cacheVars, orderVars, breakerVars, limiterVars, queueVars, compVars, admVars, retryVars, settleVars, multiVars, statsVars>>
    \/ /\ \E c \in FixCalls, dbOk \in BOOLEAN : FixMark(c, dbOk)
       /\ UNCHANGED <<users_key, activity_key, purchase_key, now, histVars>>
       /\ UNCHANGED <<inventories0, inventory_alerts, rowLock, syncTx, autoFix, syncLast, hcLast>>
       /\ UNCHANGED <<burstVars, cacheVars, orderVars, breakerVars, limiterVars, queueVars, compVars, admVars, retryVars, settleVars, multiVars, statsVars>>

SpecFix == InitFix /\ [][NextFix]_vars

(* ------------------------------------------------------------------------ *)
(* Settlement of purchases into the durable inventory (SpecSettle)           *)
(*                                                                           *)
(* A successful purchase decrements the fast-path stock and sends a stock    *)
(* update message; the order-service consumes it in HandleStockUpdate.  The  *)
(* inventory-service runs its health check beside them.  No service of the   *)
(* repository holds a client of the inventory-service: its POST /sync-stock  *)
(* endpoint is called by FixInventoryDiff alone.                             *)
(* ------------------------------------------------------------------------ *)

\* NewStockUpdateMessage, without the time and the trace id
NewStockUpdateMessage(productID, remainingStock) ==
    [product_id |-> productID, remaining_stock |-> remainingStock,
     message_type |-> "stock_update"]

\* sendStockUpdateMessage: sent is FALSE when no message queue is configured
\* or the producer fails; the purchase stands either way
sendStockUpdateMessage(productID, remainingStock, sent) ==
    IF sent
    THEN [stock_mq EXCEPT !.sent = Append(@, NewStockUpdateMessage(productID,
                                                                   remainingStock))]
    ELSE stock_mq

\* executeSeckill of the seckill-service: the purchase script, then the stock
\* update message of a successful purchase
executeSeckillSettle(u, q, redisOk, sent) ==
    /\ nops < MaxOps
    /\ ExecuteSeckill(ProductId, u, q, redisOk)
    /\ LET r == SeckillOutcome(ProductId, u, q, redisOk)
       IN stock_mq' = IF r.code = ResultSuccess
                      THEN sendStockUpdateMessage(ProductId, r.remaining, sent)
                      ELSE stock_mq

\* HandleStockUpdate of the order-service: logs the message and returns nil
HandleStockUpdate ==
    /\ stock_mq.handled < Len(stock_mq.sent)
    /\ stock_mq' = [stock_mq EXCEPT !.handled = @ + 1]
    /\ UNCHANGED <<storeVars, histVars, invVars>>

\* the activity is preloaded with the stock of the inventory row
InitSettle ==
    /\ users_key = {}
    /\ activity_key = <<>>
    /\ purchase_key = [u \in UserIds |-> <<>>]
    /\ now = 0
    /\ granted = 0
    /\ restored = 0
    /\ successes = [u \in UserIds |-> 0]
    /\ last = NoOp
    /\ nops = 0
    /\ InitBurstIdle
    /\ InitCacheIdle
    /\ InitOrderIdle
    /\ InitStatsIdle
    /\ InitMultiIdle
    /\ InitRetryIdle
    /\ InitFixIdle
    /\ InitSettleIdle
    /\ InitCompIdle
    /\ InitAdmIdle
    /\ InitBreakerIdle
    /\ InitLimiterIdle
    /\ InitQueueIdle
    /\ \E s \in 1..MaxStock :
          /\ stock_key = <<s>>
          /\ initialStock = s
          /\ inventories = [exists |-> TRUE, stock |-> s, version |-> 0]
    /\ inventories0 = inventories
    /\ inventory_logs = <<>>
    /\ inventory_diffs = <<>>
    /\ inventory_alerts = {}
    /\ rowLock = 0
    /\ syncTx = [c \in SyncCalls |-> IdleSync]
    /\ autoFix \in BOOLEAN
    /\ syncLast = NoSync
    /\ hcLast = NoCycle

NextSettle ==
    \/ /\ \E u \in ValidUsers, q \in 1..MaxQty, redisOk \in BOOLEAN, sent \in BOOLEAN :
             executeSeckillSettle(u, q, redisOk, sent)
       /\ UNCHANGED <<burstVars, cacheVars, orderVars, breakerVars, limiterVars, queueVars, compVars, admVars, invVars, retryVars, fixVars, multiVars, statsVars>>
    \/ /\ HandleStockUpdate
       /\ UNCHANGED <<burstVars, cacheVars, orderVars, breakerVars, limiterVars, queueVars, compVars, admVars, retryVars, fixVars, multiVars, statsVars>>
    \/ /\ \E redisOk \in BOOLEAN, diffOk \in BOOLEAN, dbOk \in BOOLEAN :
             performHealthCheck(redisOk, diffOk, dbOk)
       /\ UNCHANGED <<histVars, burstVars, cacheVars, orderVars, breakerVars, limiterVars, queueVars, compVars, admVars, retryVars, fixVars, settleVars, multiVars, statsVars>>

SpecSettle == InitSettle /\ [][NextSettle]_vars

(* ------------------------------------------------------------------------ *)
(* flowcontrol: MultiLevelLimiter (SpecMultiLevel)                           *)
(*                                                                           *)
(* AllowN asks its limiters in order, each under its own mutex, and returns  *)
(* false at the first one that refuses.                                      *)
(* ------------------------------------------------------------------------ *)

\* the limiters a MultiLevelLimiter is built over, in order
LimiterLists == {<<"TokenBucket", "SlidingWindow">>, <<"SlidingWindow", "TokenBucket">>}

\* MultiLevelLimiter.AllowN is called: the loop stands before its first limiter
MultiLevelAllowN(n) ==
    /\ ml.pc = 0
    /\ Len(tbReqs) < MaxLimOps
    /\ Len(swReqs) < MaxLimOps
    /\ ml' = [ml EXCEPT !.pc = 1, !.n = n, !.ret = "", !.at = now,
                        !.tb0 = tb, !.sw0 = sw, !.admitted = {}]
    /\ UNCHANGED limiterVars

\* one round of the loop: limiter.AllowN(n); return false when it refuses and
\* true after the last limiter
MultiLevelStep ==
    /\ ml.pc \in 1..Len(ml.limiters)
    /\ LET kind == ml.limiters[ml.pc]
       IN /\ IF kind = "TokenBucket"
             THEN TokenBucketAllowN(ml.n)
             ELSE SlidingWindowAllowN(ml.n)
          /\ LET ok == IF kind = "TokenBucket"
                       THEN tbReqs'[Len(tbReqs')].ok
                       ELSE swReqs'[Len(swReqs')].ok
             IN ml' = [ml EXCEPT
                         !.pc = IF ok /\ ml.pc < Len(ml.limiters) THEN ml.pc + 1 ELSE 0,
                         !.ret = IF ~ok THEN "false"
                                 ELSE IF ml.pc = Len(ml.limiters) THEN "true" ELSE "",
                         !.admitted = IF ok THEN @ \cup {kind} ELSE @]

\* the clock, between two calls
TickMultiLevel ==
    /\ ml.pc = 0
    /\ TickLimiter

InitMultiLevel ==
    /\ InitStore
    /\ InitBurstIdle
    /\ InitCacheIdle
    /\ InitOrderIdle
    /\ InitStatsIdle
    /\ InitSettleIdle
    /\ InitFixIdle
    /\ InitRetryIdle
    /\ InitInvIdle
    /\ InitAdmIdle
    /\ InitCompIdle
    /\ InitBreakerIdle
    /\ InitQueueIdle
    /\ \E rate \in Rates, capacity \in 1..MaxCapacity :
          tb = NewTokenBucketLimiter(rate, capacity, 0)
    /\ tbReqs = <<>>
    /\ \E limit \in 1..MaxLimit, window \in 1..MaxWindow :
          sw = NewSlidingWindowLimiter(limit, window)
    /\ swReqs = <<>>
    /\ waiter = NoWaiter
    /\ \E limiters \in LimiterLists : ml = [NoMulti EXCEPT !.limiters = limiters]

NextMultiLevel ==
    \/ /\ \E n \in 1..MaxN : MultiLevelAllowN(n)
       /\ UNCHANGED <<storeVars, histVars, burstVars, cacheVars, orderVars, breakerVars, queueVars, compVars, admVars, invVars, retryVars, fixVars, settleVars, statsVars>>
    \/ /\ MultiLevelStep
       /\ UNCHANGED <<storeVars, histVars, burstVars, cacheVars, orderVars, breakerVars, queueVars, compVars, admVars, invVars, retryVars, fixVars, settleVars, statsVars>>
    \/ /\ TickMultiLevel
       /\ UNCHANGED <<burstVars, cacheVars, orderVars, breakerVars, queueVars, compVars, admVars, invVars, retryVars, fixVars, settleVars, multiVars, statsVars>>

SpecMultiLevel == InitMultiLevel /\ [][NextMultiLevel]_vars

(* ------------------------------------------------------------------------ *)
(* flowcontrol: the statistics of the RequestQueue (SpecQueueStats)          *)
(*                                                                           *)
(* Submit and SubmitAsync count an item under the statistics mutex after     *)
(* the send on the intake channel has happened; updateStats runs in the      *)
(* worker after the response or error was sent.                              *)
(* ------------------------------------------------------------------------ *)

\* updateStats: one queued request less, and one more processed, timed out
\* or failed
updateStats(s, success, timeout) ==
    [s EXCEPT !.QueuedRequests = @ - 1,
              !.ProcessedRequests = IF success THEN @ + 1 ELSE @,
              !.TimeoutRequests = IF ~success /\ timeout THEN @ + 1 ELSE @,
              !.FailedRequests = IF ~success /\ ~timeout THEN @ + 1 ELSE @]

\* the intake select with its statistics: a full queue is counted in the
\* default case itself; an item that was sent is counted in a later step
SubmitSelectStats(i) ==
    /\ SubmitSelect(i)
    /\ q_stats' = IF panicked' \/ item'[i].pc = "select" THEN q_stats
                  ELSE IF item'[i].accepted
                  THEN [q_stats EXCEPT !.sent = @ \cup {i}]
                  ELSE IF item'[i].ret = "ErrQueueFull"
                  THEN [q_stats EXCEPT !.TotalRequests = @ + 1, !.FailedRequests = @ + 1]
                  ELSE q_stats

\* Submit / SubmitAsync after the send: TotalRequests++ and QueuedRequests++
\* under the statistics mutex
SubmitCount(i) ==
    /\ ~panicked
    /\ i \in q_stats.sent
    /\ q_stats' = [q_stats EXCEPT !.TotalRequests = @ + 1, !.QueuedRequests = @ + 1,
                                  !.sent = @ \ {i}]
    /\ UNCHANGED queueVars

\* the wait select is reached once the item has been counted
AwaitStats(i) ==
    /\ i \notin q_stats.sent
    /\ Await(i)
    /\ UNCHANGED q_stats

\* the worker takes an item: processItem calls updateStats(false, true) for
\* one that has timed out
WorkerReceiveStats(w) ==
    /\ WorkerReceive(w)
    /\ q_stats' = IF ~panicked' /\ q_processing' # q_processing
                     /\ worker'[w].pc = "idle"
                  THEN updateStats(q_stats, FALSE, TRUE)
                  ELSE q_stats

\* the processor returns: processItem calls updateStats(true, false) after a
\* response and updateStats(false, false) after an error
WorkerFinishStats(w, ok) ==
    /\ WorkerFinish(w, ok)
    /\ q_stats' = updateStats(q_stats, ok, FALSE)

InitQueueStats ==
    /\ InitStore
    /\ InitBurstIdle
    /\ InitCacheIdle
    /\ InitOrderIdle
    /\ InitStatsIdle
    /\ InitMultiIdle
    /\ InitSettleIdle
    /\ InitFixIdle
    /\ InitRetryIdle
    /\ InitInvIdle
    /\ InitAdmIdle
    /\ InitCompIdle
    /\ InitBreakerIdle
    /\ InitLimiterIdle
    /\ InitQueueIdle

NextQueueStats ==
    \/ /\ \E i \in Items, mode \in {"sync", "async"}, timeout \in 0..MaxItemTimeout,
             cancelled \in BOOLEAN : SubmitStart(i, mode, timeout, cancelled)
       /\ UNCHANGED <<storeVars, histVars, burstVars, cacheVars, orderVars, breakerVars, limiterVars, compVars, admVars, invVars, retryVars, fixVars, settleVars, multiVars, statsVars>>
    \/ /\ \E i \in Items : SubmitSelectStats(i)
       /\ UNCHANGED <<storeVars, histVars, burstVars, cacheVars, orderVars, breakerVars, limiterVars, compVars, admVars, invVars, retryVars, fixVars, settleVars, multiVars>>
    \/ /\ \E i \in Items : SubmitCount(i)
       /\ UNCHANGED <<storeVars, histVars, burstVars, cacheVars, orderVars, breakerVars, limiterVars, compVars, admVars, invVars, retryVars, fixVars, settleVars, multiVars>>
    \/ /\ \E i \in Items : AwaitStats(i)
       /\ UNCHANGED <<storeVars, histVars, burstVars, cacheVars, orderVars, breakerVars, limiterVars, compVars, admVars, invVars, retryVars, fixVars, settleVars, multiVars>>
    \/ /\ \E i \in Items : CancelItem(i)
       /\ UNCHANGED <<storeVars, histVars, burstVars, cacheVars, orderVars, breakerVars, limiterVars, compVars, admVars, invVars, retryVars, fixVars, settleVars, multiVars, statsVars>>
    \/ /\ SchedulerReceive
       /\ UNCHANGED <<storeVars, histVars, burstVars, cacheVars, orderVars, breakerVars, limiterVars, compVars, admVars, invVars, retryVars, fixVars, settleVars, multiVars, statsVars>>
    \/ /\ SchedulerSend
       /\ UNCHANGED <<storeVars, histVars, burstVars, cacheVars, orderVars, breakerVars, limiterVars, compVars, admVars, invVars, retryVars, fixVars, settleVars, multiVars, statsVars>>
    \/ /\ \E w \in Workers : WorkerReceiveStats(w)
       /\ UNCHANGED <<storeVars, histVars, burstVars, cacheVars, orderVars, breakerVars, limiterVars, compVars, admVars, invVars, retryVars, fixVars, settleVars, multiVars>>
    \/ /\ \E w \in Workers, ok \in BOOLEAN : WorkerFinishStats(w, ok)
       /\ UNCHANGED <<storeVars, histVars, burstVars, cacheVars, orderVars, breakerVars, limiterVars, compVars, admVars, invVars, retryVars, fixVars, settleVars, multiVars>>
    \/ /\ CancelQueue
       /\ UNCHANGED <<storeVars, histVars, burstVars, cacheVars, orderVars, breakerVars, limiterVars, compVars, admVars, invVars, retryVars, fixVars, settleVars, multiVars, statsVars>>
    \/ /\ TickQueue
       /\ UNCHANGED <<burstVars, cacheVars, orderVars, breakerVars, limiterVars, compVars, admVars, invVars, retryVars, fixVars, settleVars, multiVars, statsVars>>

SpecQueueStats == InitQueueStats /\ [][NextQueueStats]_vars

(* ------------------------------------------------------------------------ *)
(* Claims about the Purchase Protocol (checked under Spec)                   *)
(* ------------------------------------------------------------------------ *)

Stock == IF stock_key = <<>> THEN 0 ELSE stock_key[1]
StockBefore == IF last.before = <<>> THEN 0 ELSE last.before[1]
Attempt == last.op = "seckill"
Rollback == last.op = "rollback"

\* C1: for a product preloaded to S, the quantity granted by successful
\* attempts never exceeds S while nothing was rolled back, the stock counter
\* is never negative, and it always equals S minus the quantity granted
\* (plus the quantity rollbacks gave back)
C1_NoOversell ==
    /\ stock_key # <<>> =>
          /\ stock_key[1] >= 0
          /\ stock_key[1] = initialStock - granted + restored
    /\ granted - restored <= initialStock
    /\ restored = 0 => granted <= initialStock
    /\ (Attempt /\ last.code = ResultSuccess) =>
          /\ last.remaining = Stock
          /\ last.remaining = StockBefore - last.qty

\* the product is sold out by purchases alone and a further attempt was refused
C1_Witness ==
    /\ initialStock > 0
    /\ granted = initialStock
    /\ restored = 0
    /\ stock_key = <<0>>
    /\ Attempt
    /\ last.code = ResultInsufficientStock

\* C2: among the attempts of one user with no rollback in between at most one
\* returns success, and the user is in the Purchase Set exactly when one did
C2_AtMostOnePurchase ==
    \A u \in UserIds :
        /\ successes[u] <= 1
        /\ (successes[u] = 1) <=> (u \in users_key)

\* a user who already bought tried again with stock left and was refused
C2_Witness ==
    /\ Attempt
    /\ last.user \in last.usersBefore
    /\ last.qty > 0
    /\ last.ok
    /\ StockBefore >= last.qty
    /\ successes[last.user] = 1
    /\ last.code = ResultUserAlreadyBought

C7_RollbackSymmetry ==
    (Rollback /\ last.ok) =>
        /\ (last.user \in last.usersBefore) =>
              /\ stock_key = <<StockBefore + last.qty>>
              /\ users_key = last.usersBefore \ {last.user}
        /\ (/\ last.undoes # <<>>
            /\ last.undoes[1].user = last.user
            /\ last.undoes[1].qty = last.qty) =>
              /\ stock_key = last.undoes[1].before
              /\ users_key = last.undoes[1].usersBefore
              /\ last.user \notin users_key
        /\ (last.user \notin last.usersBefore) =>
              /\ stock_key = last.before
              /\ users_key = last.usersBefore
              /\ last.code = 0

\* a purchase of q was rolled back by the same user with the same q
C7_Witness ==
    /\ Rollback
    /\ last.ok
    /\ last.undoes # <<>>
    /\ last.undoes[1].user = last.user
    /\ last.undoes[1].qty = last.qty
    /\ last.undoes[1].before # <<>>
    /\ last.undoes[1].usersBefore # {}

\* a rollback for a user who never bought, while another user is in the set
C7_WitnessNoop ==
    /\ Rollback
    /\ last.ok
    /\ last.user \notin last.usersBefore
    /\ last.usersBefore # {}

\* C8: an attempt returns success only when activity metadata exists and
\* start <= now < end; before the start it returns activity-not-started, from
\* the end on activity-ended, without metadata activity-not-found, and these
\* leave the stock counter and the Purchase Set unchanged
C8_ActivityWindow ==
    (Attempt /\ last.pid > 0 /\ last.user > 0 /\ last.qty > 0 /\ last.ok) =>
        /\ (last.code = ResultSuccess) =>
              /\ activity_key # <<>>
              /\ activity_key[1].start_time <= last.at
              /\ last.at < activity_key[1].end_time
        /\ (activity_key = <<>>) => last.code = ResultActivityNotFound
        /\ (activity_key # <<>> /\ last.at < activity_key[1].start_time) =>
              /\ last.code = ResultActivityNotStarted
              /\ stock_key = last.before
              /\ users_key = last.usersBefore
        /\ (activity_key # <<>> /\ last.at >= activity_key[1].end_time) =>
              /\ last.code = ResultActivityEnded
              /\ stock_key = last.before
              /\ users_key = last.usersBefore

(* ------------------------------------------------------------------------ *)
(* Claims about the burst scenario (checked under SpecBurst)                 *)
(* ------------------------------------------------------------------------ *)

Min(a, b) == IF a <= b THEN a ELSE b
BurstWinners == {u \in ValidUsers : attempt[u] = ResultSuccess}
BurstDone == \A u \in ValidUsers : attempt[u] # 0

RECURSIVE SumHeld(_)
SumHeld(users) ==
    IF users = {} THEN 0
    ELSE LET u == CHOOSE x \in users : TRUE
         IN held[u] + SumHeld(users \ {u})

\* C3: the stock decrement and the addition of the buyer to the Purchase Set
\* take effect in one indivisible step: in every state a client can read, the
\* stock consumed since the preload is the quantity recorded for the buyers
\* in the Purchase Set
C3_AtomicPurchase ==
    stock_key # <<>> => initialStock - stock_key[1] = SumHeld(users_key)

\* the wrapper path: a caller found its user in the Purchase Set exactly when
\* it returns the already-bought error, and it then wrote nothing
WrapperAlreadyBought ==
    \A c \in Clients :
        /\ (client[c].saw = <<TRUE>>) <=> (client[c].result = "already")
        /\ (client[c].saw = <<TRUE>>) => ~client[c].wrote

(* ------------------------------------------------------------------------ *)
(* Claims about durable order creation (checked under SpecOrder)             *)
(* ------------------------------------------------------------------------ *)

RowsOf(rows, m) == {r \in rows : r.user_id = m.user_id /\ r.product_id = m.product_id}
Returned(m) == \E d \in Deliveries : delivery[d].pc = "done" /\ Msg(d) = m
AllReturned == \A d \in Deliveries : delivery[d].pc = "done"

Completed(st) == cbLast.op = "after" /\ cbLast.counted /\ cbLast.stateAt = st

\* every request admitted in the generation has completed, this one included
FedInTurn == cbLast.countsAt.Requests = Len(cbLast.hist)

\* C9: in HALF_OPEN a trial request that completes with a failure moves the
\* breaker back to OPEN, whatever the counts of the generation are, and one
\* that completes with a success moves it to CLOSED
C9_TrialDecides ==
    Completed(StateHalfOpen) =>
        /\ cbLast.success => cb.state = StateClosed
        /\ ~cbLast.success => cb.state = StateOpen

\* C10: a CLOSED breaker fed 2 successes then 3 failures within one interval
\* is OPEN after the third failure and CLOSED until then; a call made with
\* the open timeout elapsed is admitted and finds the breaker HALF_OPEN; a
\* trial call that succeeds leaves the breaker CLOSED
C10_TripAndRecover ==
    /\ (Completed(StateClosed) /\ FedInTurn) =>
          /\ cbLast.hist = <<"S", "S", "F", "F", "F">> =>
                /\ cb.state = StateOpen
                /\ cb.expiry = cbLast.at + CbTimeout
          /\ cbLast.hist \in {<<"S">>, <<"S", "S">>, <<"S", "S", "F">>,
                              <<"S", "S", "F", "F">>} =>
                cb.state = StateClosed
    /\ (cbLast.op = "before" /\ cbLast.stateBefore = StateOpen /\ cbLast.expired) =>
          /\ cbLast.admitted
          /\ cbLast.stateAt = StateHalfOpen
          /\ cb.state = StateHalfOpen
          /\ cb.counts.Requests = 1
    /\ (Completed(StateHalfOpen) /\ cbLast.success) =>
          /\ cb.state = StateClosed
          /\ cb.counts = ClearCounts

\* the breaker was opened by 2 successes and 3 failures, and the trial call
\* admitted after the timeout has succeeded and closed it
C10_Witness ==
    /\ tripHist = <<"S", "S", "F", "F", "F">>
    /\ Completed(StateHalfOpen)
    /\ cbLast.success
    /\ cb.state = StateClosed

\* C11: a call made while the breaker is OPEN and its timeout has not elapsed
\* returns the circuit-open error, the wrapped function is not invoked and
\* the breaker is left as it was
C11_OpenRejects ==
    (cbLast.op = "before" /\ cbLast.stateBefore = StateOpen /\ ~cbLast.expired) =>
        /\ ~cbLast.admitted
        /\ cbLast.err = "ErrCircuitBreakerOpen"
        /\ caller[cbLast.caller].pc = "idle"
        /\ cb.state = StateOpen

\* a call was rejected by the OPEN breaker before the timeout
C11_Witness ==
    /\ cbLast.op = "before"
    /\ cbLast.stateBefore = StateOpen
    /\ ~cbLast.expired
    /\ cbLast.err = "ErrCircuitBreakerOpen"
    /\ tripHist # <<>>

\* the trial requests admitted in the generation the breaker is in: those
\* still running and those whose outcome was counted
Trials ==
    Len(cbHist)
    + Cardinality({c \in Callers : /\ caller[c].pc = "running"
                                   /\ caller[c].generation = cb.generation})

\* C12: in one HALF_OPEN period at most maxRequests trial requests are
\* admitted, in every interleaving of the callers, and a call that finds the
\* period full gets the too-many-requests error and is not run
C12_HalfOpenBound ==
    /\ cb.state = StateHalfOpen => Trials <= cb.maxRequests
    /\ (cbLast.op = "before" /\ cbLast.stateAt = StateHalfOpen
            /\ cbLast.countsAt.Requests >= cb.maxRequests) =>
          /\ ~cbLast.admitted
          /\ cbLast.err = "ErrTooManyRequests"
          /\ caller[cbLast.caller].pc = "idle"

\* the HALF_OPEN period has admitted maxRequests trials, one of them still
\* running, and a further call was rejected
C12_Witness ==
    /\ cb.state = StateHalfOpen
    /\ Trials = cb.maxRequests
    /\ \E c \in Callers : caller[c].pc = "running" /\ caller[c].generation = cb.generation
    /\ cbLast.op = "before"
    /\ cbLast.err = "ErrTooManyRequests"

(* ------------------------------------------------------------------------ *)
(* Claims about the distributed lock and the wrapper (checked under          *)
(* SpecCache)                                                                *)
(* ------------------------------------------------------------------------ *)

\* C17: a release by a lock instance that is not the one holding the key
\* leaves the key in place: only the holder's own release deletes it
C17_ReleaseOwnOnly ==
    [][\A c \in Clients :
          (client[c].pc = "unlock" /\ client'[c].pc = "done" /\ holder # c)
              => lock_key' = lock_key]_vars

\* the calls that returned success
WrapperSuccesses == {c \in Clients : client[c].pc = "done" /\ client[c].result = "ok"}

\* C18: once every lock-guarded SeckillPurchase call of quantity 1 has
\* returned, the stock consumed, the size of the Purchase Set and the number
\* of calls that returned success are equal
C18_WrapperConsistent ==
    (\A c \in Clients : client[c].pc = "done" /\ client[c].qty = 1) =>
        /\ initialStock - Stock0(stock_key) = Cardinality(users_key)
        /\ Cardinality(users_key) = Cardinality(WrapperSuccesses)

(* ------------------------------------------------------------------------ *)
(* Claims about the limiters (checked under SpecTokenBucket and             *)
(* SpecSlidingWindow)                                                        *)
(* ------------------------------------------------------------------------ *)

\* the first k calls on the token bucket are single-token calls made with no
\* time elapsed since the bucket was built
Burst(k) == \A j \in 1..k : tbReqs[j].n = 1 /\ tbReqs[j].at = 0

\* no call between the j-th and the k-th was admitted
NoneAdmittedBetween(j, k) == \A i \in (j + 1)..(k - 1) : ~tbReqs[i].ok

\* C19: a bucket of capacity C that starts full admits the first C
\* single-token requests made with no time elapsed and rejects the next; a
\* single-token request made 1/R or more after a rejected one, with nothing
\* admitted in between, is admitted, whatever was rejected in between
C19_TokenBucket ==
    /\ \A k \in 1..Len(tbReqs) :
          Burst(k) => (tbReqs[k].ok <=> k <= tb.capacity)
    /\ \A j \in 1..Len(tbReqs), k \in 1..Len(tbReqs) :
          (/\ j < k
           /\ tbReqs[j].n = 1 /\ ~tbReqs[j].ok
           /\ tbReqs[k].n = 1
           /\ (tbReqs[k].at - tbReqs[j].at) * tb.rateNum >= tb.rateDen
           /\ NoneAdmittedBetween(j, k))
              => tbReqs[k].ok

\* the bucket admitted C requests at once and rejected the next, a request
\* less than 1/R later was rejected too, and the one made 1/R after the first
\* rejection was admitted
C19_Witness ==
    /\ Len(tbReqs) >= tb.capacity + 3
    /\ Burst(tb.capacity + 1)
    /\ ~tbReqs[tb.capacity + 1].ok
    /\ LET r == tbReqs[tb.capacity + 2]
           a == tbReqs[tb.capacity + 3]
       IN /\ r.n = 1 /\ ~r.ok /\ r.at > 0
          /\ a.n = 1 /\ a.ok
          /\ a.at * tb.rateNum >= tb.rateDen

\* the admissions among the first k calls on the sliding window that were
\* recorded later than lo and not later than hi
RECURSIVE Admitted(_, _, _)
Admitted(k, lo, hi) ==
    IF k = 0 THEN 0
    ELSE Admitted(k - 1, lo, hi)
         + (IF swReqs[k].ok /\ swReqs[k].at > lo /\ swReqs[k].at <= hi
            THEN swReqs[k].n ELSE 0)

\* C20: AllowN(n) admits exactly when the admissions recorded later than
\* now - W plus n are at most L, and no window (t - W, t] holds more than L
\* admissions
C20_SlidingWindow ==
    /\ \A k \in 1..Len(swReqs) :
          swReqs[k].ok <=>
              Admitted(k - 1, swReqs[k].at - sw.window, swReqs[k].at) + swReqs[k].n
                  <= sw.limit
    /\ \A t \in 0..MaxLimTime :
          Admitted(Len(swReqs), t - sw.window, t) <= sw.limit

\* the window was full and refused a request, and a request was admitted
\* again once the earlier admissions had left the window
C20_Witness ==
    \E j \in 1..Len(swReqs), k \in 1..Len(swReqs) :
        /\ j < k
        /\ swReqs[j].n > 0 /\ ~swReqs[j].ok
        /\ Admitted(j - 1, swReqs[j].at - sw.window, swReqs[j].at) = sw.limit
        /\ swReqs[k].n > 0 /\ swReqs[k].ok
        /\ Admitted(k - 1, 0 - 1, swReqs[k].at) > 0

(* ------------------------------------------------------------------------ *)
(* Claims about the request queue (checked under SpecQueue and               *)
(* SpecQueueLive)                                                            *)
(* ------------------------------------------------------------------------ *)

\* the items in the intake queue, in the scheduler's hand, in the processing
\* queue or with a worker
InQueue ==
    {q_queue[k] : k \in 1..Len(q_queue)}
    \cup {q_processing[k] : k \in 1..Len(q_processing)}
    \cup {sched.item} \cup {worker[w].item : w \in Workers}

\* the call found the intake queue holding capacity items and has returned
FoundFull(i) == item[i].pc = "returned" /\ item[i].full

\* the item was not enqueued, and neither the processor nor the callback ran
Untouched(i) ==
    /\ ~item[i].accepted
    /\ i \notin InQueue
    /\ item[i].ran = 0
    /\ item[i].callbacks = 0
    /\ item[i].chan = <<>>

\* C13 as stated: a Submit / SubmitAsync that finds the intake queue holding
\* capacity items returns the queue-full error, the item is not enqueued and
\* neither the processor nor the callback is invoked for it
C13_AsStated ==
    \A i \in Items :
        FoundFull(i) => (item[i].ret = "ErrQueueFull" /\ Untouched(i))

\* C13: the same, the error being the context's error when the caller's
\* context is already cancelled at the call, and queue-full otherwise
C13_QueueFull ==
    \A i \in Items :
        FoundFull(i) =>
            /\ item[i].ret = (IF item[i].ctx THEN "ctx" ELSE "ErrQueueFull")
            /\ Untouched(i)

\* a submission was refused with queue-full while another item sat in the
\* intake queue
C13_Witness ==
    \E i \in Items :
        /\ FoundFull(i)
        /\ item[i].ret = "ErrQueueFull"
        /\ Len(q_queue) = QCapacity

\* the accepted item has waited longer than its timeout without having been
\* given to the processor, and its submitter is still waiting
Overdue(i) ==
    /\ item[i].pc = "waiting"
    /\ item[i].Timeout > 0
    /\ now - item[i].Timestamp > item[i].Timeout
    /\ item[i].ran = 0
    /\ ~item[i].ctx

\* C14: once an accepted item has waited longer than its timeout, the
\* processor is never invoked for it and its submitter receives the timeout
\* error, whether or not a worker dequeues the item (a submitter whose own
\* context is cancelled aside)
C14_TimeoutDelivered ==
    \A i \in Items :
        Overdue(i) ~> (/\ item[i].ran = 0
                       /\ \/ item[i].outcome = "ErrTimeout"
                          \/ item[i].ctx)

\* C15: for every item SubmitAsync accepts, the callback is invoked at most
\* once, and it carries the outcome the worker produced for the item
C15_AsyncCallback ==
    \A i \in Items :
        (item[i].mode = "async" /\ item[i].accepted) =>
            /\ item[i].ret = "nil"
            /\ item[i].callbacks <= 1
            /\ item[i].callbacks = 1 =>
                  item[i].outcome \in {"response", "error", "ErrTimeout"}

\* a worker that takes an item after its timeout does not run the processor
\* and the item's outcome is the timeout error
TimedOutAtDequeue ==
    \A i \in Items :
        item[i].chan = <<"ErrTimeout">> =>
            /\ item[i].ran = 0
            /\ now - item[i].Timestamp > item[i].Timeout

(* ------------------------------------------------------------------------ *)
(* Claims about the blocking waits (checked under SpecWait)                  *)
(* ------------------------------------------------------------------------ *)

WaitNBlocked == waiter.pc \in {"allow", "select"}
SubmitBlocked == item[1].pc \in {"select", "waiting"}
TryLockBlocked == client[1].pc = "trylock"

\* C16 as stated: a wait that has returned after its context was cancelled
\* has returned the cancellation error
C16_AsStated ==
    /\ (waiter.pc = "returned" /\ waiter.ctx) => waiter.ret = "ctx"
    /\ (item[1].pc = "returned" /\ item[1].ctx)
          => (item[1].ret = "ctx" \/ item[1].outcome = "ctx")
    /\ (client[1].pc \notin {"idle", "trylock"} /\ client[1].ctx)
          => client[1].result = "ctx"

\* C16: once its context is cancelled, a wait of the limiter, of the queue
\* or of the lock does not stay blocked: the call returns, with the
\* cancellation error or with the outcome it found ready (the tokens, the
\* response or error of the item, the lock, the last attempt used up)
C16_CancelledWaitReturns ==
    /\ (WaitNBlocked /\ waiter.ctx) ~> (waiter.pc = "returned" /\ waiter.ret \in {"ctx", "nil"})
    /\ (SubmitBlocked /\ item[1].ctx)
          ~> (item[1].pc = "returned" /\ (item[1].ret # "" \/ item[1].outcome # ""))
    /\ (TryLockBlocked /\ client[1].ctx)
          ~> (client[1].pc = "check" \/ client[1].result \in {"ctx", "lock"})

\* a WaitN that found too few tokens returned the cancellation error
C16_Witness ==
    /\ waiter.pc = "returned"
    /\ waiter.ret = "ctx"
    /\ waiter.n > tb.tokens

(* ------------------------------------------------------------------------ *)
(* Claims about the failure records (checked under SpecCompensation)         *)
(* ------------------------------------------------------------------------ *)

\* C21: an attempt that meets an existing idempotency row of its (user,
\* product) is a success on every path: a delivery leaves no failure record,
\* and a scheduled or manual retry marks its record success and does not
\* count a failed retry
C21_DuplicateIsSuccess ==
    /\ \A d \in Deliveries :
          delivery[d].result = "duplicate" => ~\E f \in order_failures : f.id = d
    /\ (lastRetry.kind # "none" /\ lastRetry.duplicate)
          => (lastRetry.status = "success" /\ lastRetry.after = lastRetry.before)

\* C22: no failure record has more retries than its max retries, and a
\* failed retry that is the last one allowed leaves the record failed
C22_RetryBound ==
    /\ \A f \in order_failures : f.retry_count <= f.max_retries
    /\ (lastRetry.kind # "none" /\ lastRetry.status # "success"
          /\ lastRetry.before + 1 >= MaxAttempts)
          => lastRetry.status = "failed"

\* C23: a compensation tick leaves no pending or processing record older
\* than the retention window
C23_SweepEveryTick == lastTick.ran => lastTick.stale = {}

\* C24: every purchase that returned success leads to a durable order of its
\* (user, product)
C24_PurchaseBecomesOrder ==
    \A m \in 1..CompMessages :
        (m \in succeeded) ~> UserProductTaken(orders, Messages[m])

\* C25: a purchase attempt submitted through ProcessSeckillAsync never
\* reaches the Purchase Protocol while the circuit breaker is OPEN
C25_AsyncRespectsBreaker ==
    (admLast.op = "processQueueItem" /\ admLast.invoked) => admLast.breaker # StateOpen

\* C26: every admission rejection of ProcessSeckill is a ResultSystemBusy
\* result with no error, and the Purchase Protocol is not invoked for it
C26_RejectionsAreTyped ==
    (admLast.op = "ProcessSeckill" /\ admLast.rejectedBy # "")
        => /\ admLast.code = "ResultSystemBusy"
           /\ admLast.err = ""
           /\ ~admLast.invoked

\* the stock and the version of the row before the first call; a missing
\* row is created with DefaultStock and version 0
InitialStock == IF inventories0.exists THEN inventories0.stock ELSE DefaultStock
InitialVersion == IF inventories0.exists THEN inventories0.version ELSE 0

Succeeded(c) == syncTx[c].result = "success"

RECURSIVE SumDeltas(_)
SumDeltas(S) ==
    IF S = {} THEN 0
    ELSE LET c == CHOOSE x \in S : TRUE
         IN syncTx[c].delta + SumDeltas(S \ {c})

\* C27: a committed SyncStock call raises the version by exactly 1 and no
\* other step of a call changes the row; an update whose read version is
\* stale ends in the conflict error (in the error of the database when the
\* statement itself fails) and changes neither row nor log; the
\* durable stock is the initial stock plus the deltas of the calls that
\* reported success
C27_OptimisticSync ==
    /\ (syncLast.op = "commit" /\ Succeeded(syncLast.call))
          => /\ inventories.version = syncLast.row.version + 1
             /\ inventories.version = syncTx[syncLast.call].version + 1
    /\ (syncLast.op \in {"begin", "create", "update", "log", "commit"}
           /\ ~Succeeded(syncLast.call))
          => inventories = syncLast.row
    /\ (syncLast.op = "update" /\ syncLast.stale)
          => /\ syncTx[syncLast.call].result
                   = IF syncLast.dbOk THEN "conflict" ELSE "error"
             /\ inventories = syncLast.row
             /\ Len(inventory_logs) = syncLast.logs
    /\ inventories.exists
          => inventories.stock = InitialStock
                                   + SumDeltas({c \in SyncCalls : Succeeded(c)})
                                   + hcLast.synced
    /\ ~inventories.exists => \A c \in SyncCalls : ~Succeeded(c)

\* a stale update has just been rejected while the other call has committed
C27_Witness ==
    /\ syncLast.op = "update" /\ syncLast.stale
    /\ syncTx[syncLast.call].result = "conflict"
    /\ \E c \in SyncCalls : Succeeded(c) /\ syncTx[c].delta # 0

LogsOf(c) == {k \in 1..Len(inventory_logs) : inventory_logs[k].call = c}

\* C28: the committed changes of the durable stock are exactly the log
\* rows, in order: one row for each raise of the version, each with
\* after_stock = before_stock + delta, starting at the initial stock and
\* ending at the current stock; a call has a row exactly when it
\* reported success, and so has the SyncStock of a fix
C28_EveryChangeLogged ==
    /\ inventories.exists
          => inventories.version - InitialVersion = Len(inventory_logs)
    /\ ~inventories.exists => inventory_logs = <<>>
    /\ \A k \in 1..Len(inventory_logs) :
          /\ inventory_logs[k].after_stock
                = inventory_logs[k].before_stock + inventory_logs[k].delta
          /\ inventory_logs[k].before_stock
                = IF k = 1 THEN InitialStock ELSE inventory_logs[k - 1].after_stock
    /\ inventory_logs # <<>>
          => inventory_logs[Len(inventory_logs)].after_stock = inventories.stock
    /\ (inventory_logs = <<>> /\ inventories.exists) => inventories = inventories0
    /\ \A c \in SyncCalls :
          Cardinality(LogsOf(c)) = IF Succeeded(c) THEN 1 ELSE 0
    /\ Cardinality(LogsOf(0)) = hcLast.syncs

\* a sale and a fix have both changed the stock, and a call has failed
C28_Witness ==
    /\ LogsOf(0) # {}
    /\ \E c \in SyncCalls : Succeeded(c) /\ syncTx[c].delta # 0
    /\ \E c \in SyncCalls : syncTx[c].result \in {"conflict", "error", "insufficient"}

\* the last cycle found a diff that the automatic fix is to heal, and
\* nothing failed in the store or the database
FixDue ==
    /\ hcLast.n > 0 /\ hcLast.healthy /\ hcLast.found
    /\ autoFix
    /\ Tolerance < abs(hcLast.diff) /\ abs(hcLast.diff) <= MaxFixAmount

\* C29: with AutoFix set, a cycle that finds tolerance < |diff| <=
\* MaxFixAmount ends with |fast-path stock - durable stock| <= tolerance
C29_CycleConverges == FixDue => hcLast.after <= Tolerance

\* C30 as stated: use_db exactly when the durable stock is lower than the
\* fast-path stock
C30_AsStated ==
    hcLast.fixType # "" => (hcLast.fixType = "use_db" <=> hcLast.db < hcLast.redis)

\* C30, amended: the automatic fix takes use_db exactly when the fast-path
\* stock is lower than the durable stock, and use_redis exactly when it is
\* higher
C30_UseDbWhenFastPathLower ==
    hcLast.fixType # ""
        => /\ hcLast.fixType = "use_db" <=> hcLast.redis < hcLast.db
           /\ hcLast.fixType = "use_redis" <=> hcLast.redis > hcLast.db

\* a cycle has fixed a lower fast-path stock with use_db
C30_Witness ==
    /\ hcLast.fixType = "use_db" /\ hcLast.fixed
    /\ hcLast.redis < hcLast.db
    /\ RedisStock(stock_key) = hcLast.db

(* ------------------------------------------------------------------------ *)
(* Claims about the Pending Purchase Record (checked under Spec)             *)
(* ------------------------------------------------------------------------ *)

\* C31: after every purchase attempt that returned success, the Fast Store
\* holds a Pending Purchase Record for (product, user) with the quantity
\* bought and status pending, written in the same step as the decrement
C31_PendingRecordWritten ==
    (Attempt /\ last.code = ResultSuccess)
        => purchase_key[last.user] = <<UserPurchaseInfo(last.user, last.qty)>>

(* ------------------------------------------------------------------------ *)
(* Claims about the breaker around the purchase (checked under SpecAdmission) *)
(* ------------------------------------------------------------------------ *)

\* C32: a purchase that ran through the breaker and returned is counted as a
\* breaker failure exactly when its Fast Store call failed, and never when
\* the Fast Store answered
C32_StoreFailureCounts ==
    (admLast.op = "return" /\ admLast.err # "panic" /\ cbLast.counted)
        => (~cbLast.success <=> admLast.code = "ResultSystemError")

(* ------------------------------------------------------------------------ *)
(* Claims about the recovery of the breaker (checked under SpecBreaker)      *)
(* ------------------------------------------------------------------------ *)

\* the breaker is HALF_OPEN, its trial requests are used up and no call of
\* the current generation is running: beforeRequest answers
\* ErrTooManyRequests, no afterRequest can be counted, and currentState
\* leaves HALF_OPEN alone whatever the time
Stuck ==
    /\ cb.state = StateHalfOpen
    /\ cb.counts.Requests >= cb.maxRequests
    /\ \A c \in Callers :
          caller[c].pc = "running" => caller[c].generation # cb.generation

\* no step of the breaker, of its callers or of the clock leaves Stuck
StuckForever == [][Stuck => Stuck']_vars

\* C33: the breaker never gets stuck: it is never in a state from which no
\* passage of time and no successful call brings it back to CLOSED
C33_NeverStuck == ~Stuck

(* ------------------------------------------------------------------------ *)
(* Claims about the shutdown of the queue (checked under SpecQueueLive)      *)
(* ------------------------------------------------------------------------ *)

\* a goroutine has panicked although no worker was at its receive: the panic
\* is the send of a submission on the intake channel closed by the scheduler
SendOnClosed == panicked /\ \A w \in Workers : worker[w].pc # "idle"

\* every accepted item is answered: its submitter returns, or its callback runs
C34_Answered == \A i \in Items : item[i].accepted ~> (item[i].pc = "returned")

\* no submission sends on the closed intake channel
C34_NoSendOnClosed == []~SendOnClosed

\* C34: every accepted item eventually receives its outcome, the items
\* waiting when the context of the queue is cancelled included, and a
\* submission that races with the shutdown never sends on a closed channel
C34_ShutdownAnswersAll == C34_Answered /\ C34_NoSendOnClosed

(* ------------------------------------------------------------------------ *)
(* Claims about the retries of a failure record (checked under               *)
(* SpecCompensation)                                                         *)
(* ------------------------------------------------------------------------ *)

\* the order and the idempotency row of the message of failure record id
OrderExists(id) ==
    LET m == Messages[FailureById(order_failures, id).msg]
    IN UserProductTaken(orders, m) /\ UserProductTaken(order_idempotency, m)

\* C35: a scheduled retry of a failure record whose fault has cleared
\* creates the order from the stored message, and a scheduled retry marks
\* the record success only when the order and its idempotency row exist
C35_RetryCreatesOrder ==
    lastRetry.kind = "scheduled"
        => /\ lastRetry.clear => OrderExists(lastRetry.id)
           /\ lastRetry.status = "success" => OrderExists(lastRetry.id)

(* ------------------------------------------------------------------------ *)
(* Claims about concurrent retries (checked under SpecRetryRace)             *)
(* ------------------------------------------------------------------------ *)

\* execution e has taken failure record id and has not yet written the
\* outcome of its retry
Handling(e, id) ==
    /\ retry[e].pc \in {"handler", "manual"}
    /\ Head(retry[e].batch).id = id

\* C36: a failure record is never handled by two retry executions at the
\* same time, be they two ticks or a manual retry and a tick
C36_OneRetryAtATime ==
    \A e1, e2 \in Execs, id \in 1..RaceFailures :
        (/\ Handling(e1, id)
         /\ Handling(e2, id)
         /\ retry[e1].kind = "scheduled") => e1 = e2

(* ------------------------------------------------------------------------ *)
(* Claims about the fix of a diff row (checked under SpecFix)                *)
(* ------------------------------------------------------------------------ *)

\* C37: the correction for an Inventory Diff Record is applied at most once:
\* of the FixInventoryDiff calls on the record, one after the other or side
\* by side, at most one succeeds, and the durable stock is moved by the diff
\* of the record at most once
C37_FixAppliedOnce ==
    /\ fixApplied <= 1
    /\ Cardinality({c \in FixCalls : fixCall[c].result = "ok"}) <= 1
    /\ inventories.stock \in {inventories0.stock,
                              inventories0.stock + inventory_diffs[1].diff}


(* ------------------------------------------------------------------------ *)
(* Claims about settlement (checked under SpecSettle)                        *)
(* ------------------------------------------------------------------------ *)

\* every successful purchase sent its stock update message and every message
\* was handled
SettleQuiescent ==
    /\ users_key # {}
    /\ Len(stock_mq.sent) = Cardinality(users_key)
    /\ stock_mq.handled = Len(stock_mq.sent)

\* C38: once the stock update message of every successful purchase has been
\* handled, the durable stock has gone down by the quantity granted and equals
\* the fast-path stock
C38_PurchasesSettled ==
    SettleQuiescent =>
        /\ inventories.stock = inventories0.stock - granted
        /\ inventories.stock = RedisStock(stock_key)


(* ------------------------------------------------------------------------ *)
(* Claims about the multi-level limiter (checked under SpecMultiLevel)       *)
(* ------------------------------------------------------------------------ *)

\* the last AllowN of the multi-level limiter returned false, and the clock
\* has not moved since it was called
MultiRejected == ml.ret = "false" /\ ml.at = now

\* C39: after the multi-level AllowN(n) returned false, the token bucket holds
\* the tokens it held before the call and the sliding window counts the
\* requests it counted before the call
C39_RejectedConsumesNothing ==
    MultiRejected =>
        /\ refill(tb, now).tokens = refill(ml.tb0, now).tokens
        /\ Len(ValidRequests(sw.requests, now - sw.window))
              = Len(ValidRequests(ml.sw0.requests, now - sw.window))


(* ------------------------------------------------------------------------ *)
(* Claims about the queue statistics (checked under SpecQueueStats)          *)
(* ------------------------------------------------------------------------ *)

\* the accepted items to which no response and no error has been sent
AwaitingOutcome ==
    {i \in Items : item[i].accepted /\ item[i].chan = <<>>
                   /\ item[i].outcome \in {"", "ctx"}}

\* TotalRequests = ProcessedRequests + FailedRequests + TimeoutRequests +
\* QueuedRequests
StatsBalance ==
    q_stats.TotalRequests = q_stats.ProcessedRequests + q_stats.FailedRequests
                            + q_stats.TimeoutRequests + q_stats.QueuedRequests

\* C40: whenever no Submit stands between its send and its count,
\* QueuedRequests is the number of accepted items without an outcome; it is
\* never negative, and the four counters add up to TotalRequests
C40_QueueStats ==
    /\ q_stats.sent = {} => q_stats.QueuedRequests = Cardinality(AwaitingOutcome)
    /\ q_stats.QueuedRequests >= 0
    /\ StatsBalance

====
